---- MODULE Spec2Model ----
(***************************************************************************)
(* Vortex-Backend: the extensions-manifest reconciliation scripts.         *)
(*                                                                         *)
(*   update-extensions-manifest (refresh flow)   src/unnamed/part_008      *)
(*   add-extension (single-item add flow)        src/src/add-extension.ts  *)
(*   process-review-requests (batch flow)        src/src/github-update-    *)
(*                                               issues.ts, BatchProcessor *)
(*   validate/normalize of a manifest entry      src/src/validate-         *)
(*                                               manifest-entry.ts         *)
(*                                                                         *)
(* A manifest entry is a JavaScript object: here a function from its keys  *)
(* to their values, so that "which keys does the object have" is DOMAIN.   *)
(* A key that is present with the value undefined holds UNDEF; null is     *)
(* NULL.  JSON.stringify drops the former and writes the latter.           *)
(***************************************************************************)
EXTENDS Integers, Sequences, FiniteSets, TLC

VARIABLES
    \* ---- the version filter taken alone (a pure function of a description)
    fdesc,          \* the description handed to the filter
    fres,           \* what the filter answered for it
    \* ---- the choice of the tracked file taken alone (a pure function of a file list)
    sfiles,         \* the file list handed to the three flows' selection code
    spicked,        \* per flow: what it selected
    \* ---- the validator taken alone (a pure function of an entry)
    ventry,         \* the entry handed to validateManifestEntry
    vres,           \* what it returned
    \* ---- the files on disk and the running process (every flow)
    canonical,      \* out/extensions-manifest.json, as parsed JSON
    archive,        \* archive/<date>_extensions-manifest.json: date |-> parsed JSON
    manifest,       \* this.manifest of the running Driver / BatchProcessor
    pc,             \* where the running process is
    exitCode,       \* "none" while it runs, then "0" or "1"
    clock,          \* the wall clock, in milliseconds
    \* ---- the marketplace (Entry Lookup Client) and the bundled-games checkout
    site,           \* per mod id: what getModInfo and getModFiles answer
    recent,         \* what getRecentlyUpdatedMods answers
    gamesDir,       \* per folder of the vortex-games checkout: its info.json
    gamePage,       \* what getGameInfo answers
    \* ---- what the single-item add flow and the batch flow are started with
    env,            \* process.env of the running script
    requests,       \* the queued review requests readExtensionReviewRequests returns
    results,        \* const results of BatchProcessor.process
    \* ---- the publish flow: the git checkout and the GitHub project
    git,            \* commits made by this.git.commit and how many of them are pushed
    commented,      \* issue numbers that received the publish comment
    completed,      \* issue numbers whose project item was moved to Completed
    publishResults, \* const publishResults of ExtensionPublisher.publish
    \* ---- the refresh flow
    now,            \* const now = Date.now() of Driver.process
    combinedMods,   \* the candidate ids of this run
    task,           \* per candidate: where its async callback is
    gtask,          \* per game folder: where its async callback is
    updatedExtensions, \* mod ids pushed to updatedExtensions
    addedExtensions,   \* mod ids pushed to addedExtensions
    removed,        \* mod ids whose entry went through removeNexusMod in this run
    before,         \* the manifest file as this run read it
    runs            \* runs started so far

filterVars == <<fdesc, fres>>
selectVars == <<sfiles, spicked>>
validateVars == <<ventry, vres>>
diskVars   == <<canonical, archive>>
procVars   == <<manifest, pc, exitCode, clock>>
publishVars == <<git, commented, completed, publishResults>>
worldVars  == <<site, recent, gamesDir, gamePage, env, requests, publishVars>>
refreshVars == <<now, combinedMods, task, gtask, updatedExtensions, addedExtensions,
                 removed, before, runs>>
pureVars   == <<filterVars, selectVars, validateVars>>
flowVars   == <<diskVars, procVars, worldVars, refreshVars, results>>
vars       == <<pureVars, flowVars>>

(***************************************************************************)
(* Values                                                                  *)
(***************************************************************************)
UNDEF == "undefined"
NULL  == "null"

\* max of a non-empty set of integers
MaxOf(S) == CHOOSE x \in S : \A y \in S : y <= x

Range(s) == {s[i] : i \in DOMAIN s}

(***************************************************************************)
(* The "requires vortex <range>" constraint of a file description.         *)
(*                                                                         *)
(* A description is a sequence of tokens (single spaces between them):     *)
(*   [k |-> "phrase"]                the words "requires vortex"           *)
(*   [k |-> "cmp", op, v, enc]       a comparator such as >=1.8.0; enc     *)
(*                                   says its < or > is written &lt; &gt;  *)
(*   [k |-> "text"]                  a word of letters                     *)
(*   [k |-> "brk"]                   a character outside the regex class   *)
(*                                   (newline, comma, ...)                 *)
(* A version is <<major, minor, patch>>.                                   *)
(***************************************************************************)
Phrase       == [k |-> "phrase", op |-> "", v |-> <<0, 0, 0>>, enc |-> FALSE]
Text         == [k |-> "text",   op |-> "", v |-> <<0, 0, 0>>, enc |-> FALSE]
Brk          == [k |-> "brk",    op |-> "", v |-> <<0, 0, 0>>, enc |-> FALSE]
Cmp(op, v)   == [k |-> "cmp", op |-> op, v |-> v, enc |-> FALSE]
CmpEnc(op, v) == [k |-> "cmp", op |-> op, v |-> v, enc |-> TRUE]

refVersionLow  == <<1, 8, 0>>
refVersionHigh == <<1, 8, 999>>

\* description.replace(HTML_REGEX, i => htmlMap[i]): &lt; and &gt; are decoded
HtmlDecode(desc) == [i \in DOMAIN desc |-> [desc[i] EXCEPT !.enc = FALSE]]

\* A token all of whose characters are in the class [><=-^~0-9. ] under the i flag:
\* the range =-^ holds the capital letters, and the i flag adds the small ones.
\* An undecoded &gt; is not: & and ; are outside the class.
InClass(t) == \/ t.k = "text"
              \/ t.k = "cmp" /\ ~t.enc

\* the longest prefix of s made of class tokens: what [class]* can consume
RECURSIVE ClassRun(_)
ClassRun(s) ==
    IF s = <<>> \/ ~InClass(Head(s)) THEN <<>>
    ELSE <<Head(s)>> \o ClassRun(Tail(s))

\* [class]*[0-9] is greedy and backtracks to the last digit: the run up to its
\* last comparator (only a comparator ends in a digit).  0 when there is none.
LastCmp(run) ==
    LET at == {i \in DOMAIN run : run[i].k = "cmp"}
    IN IF at = {} THEN 0 ELSE MaxOf(at)

NoMatch == <<Brk>>

\* String.prototype.match(VERSION_MATCH_REGEX): the captured group, or NoMatch for null.
\* The regex starts with ^ and has no m flag: it matches at the start of the text only.
VersionMatch_Anywhere(desc) ==
    LET at == {i \in DOMAIN desc : desc[i].k = "phrase"
                  /\ LastCmp(ClassRun(SubSeq(desc, i + 1, Len(desc)))) > 0}
    IN IF at = {} THEN NoMatch
       ELSE LET i == CHOOSE j \in at : \A l \in at : j <= l
                run == ClassRun(SubSeq(desc, i + 1, Len(desc)))
            IN SubSeq(run, 1, LastCmp(run))
VersionMatch(desc) ==
    IF desc = <<>> \/ Head(desc).k # "phrase" THEN NoMatch
    ELSE LET run == ClassRun(Tail(desc))
         IN IF LastCmp(run) = 0 THEN NoMatch ELSE SubSeq(run, 1, LastCmp(run))

\* semver's compare of two versions: -1, 0, 1
VCompare(a, b) ==
    IF a[1] # b[1] THEN (IF a[1] < b[1] THEN -1 ELSE 1)
    ELSE IF a[2] # b[2] THEN (IF a[2] < b[2] THEN -1 ELSE 1)
    ELSE IF a[3] # b[3] THEN (IF a[3] < b[3] THEN -1 ELSE 1)
    ELSE 0

\* one comparator of a range
CmpHolds(ver, c) ==
    CASE c.op = ">=" -> VCompare(ver, c.v) >= 0
      [] c.op = ">"  -> VCompare(ver, c.v) > 0
      [] c.op = "<=" -> VCompare(ver, c.v) <= 0
      [] c.op = "<"  -> VCompare(ver, c.v) < 0
      [] c.op = "="  -> VCompare(ver, c.v) = 0
      [] OTHER       -> FALSE

\* semver.satisfies(version, range): a range that does not parse (a word among the
\* comparators) makes satisfies answer false; the comparators of a set all hold.
Satisfies(ver, range) ==
    /\ \A i \in DOMAIN range : range[i].k = "cmp"
    /\ \A i \in DOMAIN range : CmpHolds(ver, range[i])

\* the callback of mainFiles.filter in the refresh flow, for a window [low, high]
RetainedIn(desc, low, high) ==
    LET versionRequirement == VersionMatch(HtmlDecode(desc))
    IN \/ versionRequirement = NoMatch
       \/ Satisfies(low, versionRequirement)
       \/ Satisfies(high, versionRequirement)

Retained(desc) == RetainedIn(desc, refVersionLow, refVersionHigh)

(***************************************************************************)
(* Files of a mod and the choice of the tracked ("latest") file.           *)
(***************************************************************************)
\* file.category_id of a main file
MainCategory == 1

MainFiles(files) == SelectSeq(files, LAMBDA f : f.category_id = MainCategory)

\* refresh flow: mainFiles.filter(version requirement)
FilteredFiles(files) == SelectSeq(MainFiles(files), LAMBDA f : Retained(f.description))

\* Array.prototype.sort((lhs, rhs) => rhs.file_id - lhs.file_id): stable, descending
RECURSIVE InsertDesc(_, _)
InsertDesc(f, sorted) ==
    IF sorted = <<>> THEN <<f>>
    ELSE IF Head(sorted).file_id - f.file_id > 0 \/ Head(sorted).file_id = f.file_id
         THEN <<Head(sorted)>> \o InsertDesc(f, Tail(sorted))
         ELSE <<f>> \o sorted

RECURSIVE SortDesc(_)
SortDesc(files) ==
    IF files = <<>> THEN <<>>
    ELSE InsertDesc(files[Len(files)], SortDesc(SubSeq(files, 1, Len(files) - 1)))

\* mainFiles.reduce((latest, current) => current.file_id > latest.file_id ? current : latest)
RECURSIVE ReduceLatest(_, _)
ReduceLatest(latest, rest) ==
    IF rest = <<>> THEN latest
    ELSE ReduceLatest(IF Head(rest).file_id > latest.file_id THEN Head(rest) ELSE latest,
                      Tail(rest))

\* the tracked file of each flow, for a list with at least one candidate
LatestFileRefresh_First(files) == FilteredFiles(files)[1]
LatestFileRefresh(files) == SortDesc(FilteredFiles(files))[1]

LatestFileAdd(files) == SortDesc(MainFiles(files))[1]

LatestFileBatch(files) == ReduceLatest(Head(MainFiles(files)), Tail(MainFiles(files)))

(***************************************************************************)
(* Objects: manifest entries                                               *)
(***************************************************************************)
\* obj[key] = value
Assign(obj, key, value) ==
    [k \in DOMAIN obj \cup {key} |-> IF k = key THEN value ELSE obj[k]]

\* Object.assign(target, source): every own key of source, undefined ones included
ObjectAssign(target, source) ==
    [k \in DOMAIN target \cup DOMAIN source |->
        IF k \in DOMAIN source THEN source[k] ELSE target[k]]

\* obj.key, undefined when the key is absent (for the keys that hold strings)
Get(obj, key) == IF key \in DOMAIN obj THEN obj[key] ELSE UNDEF

\* the keys whose value is a string, undefined or null
StringKeys == {"author", "uploader", "image", "name", "version", "type", "gameName",
               "gameId", "language", "id", "github", "githubRawPath"}

\* existing.dependencies when nothing was ever recorded
UndefinedDeps == [undefined |-> TRUE]

IsUndefined(key, value) ==
    \/ key \in StringKeys /\ value = UNDEF
    \/ key = "dependencies" /\ value = UndefinedDeps

\* JSON.parse(JSON.stringify(obj)): a key holding undefined is not written, null is
JsonObject(obj) ==
    LET kept == {k \in DOMAIN obj : ~IsUndefined(k, obj[k])}
    IN [k \in kept |-> obj[k]]

\* the manifest as the file holds it
JsonManifest(m) ==
    [last_updated |-> m.last_updated,
     extensions |-> [i \in DOMAIN m.extensions |-> JsonObject(m.extensions[i])]]

\* manifest.extensions.find((ext) => ext.modId === id): its index, 0 for undefined
FindByModId(exts, id) ==
    LET at == {i \in DOMAIN exts : "modId" \in DOMAIN exts[i] /\ exts[i].modId = id}
    IN IF at = {} THEN 0 ELSE CHOOSE i \in at : \A j \in at : i <= j

\* nexus category to extension type mapping; UNDEF for a category that is not listed
CATEGORIES(category_id) ==
    CASE category_id = 4  -> "game"
      [] category_id = 7  -> "translation"
      [] category_id = 13 -> "theme"
      [] OTHER            -> UNDEF

\* Driver.makeExtension of the refresh flow
makeExtension(modInfo, file, type, extraInfo) ==
    [modId |-> modInfo.mod_id,
     fileId |-> file.file_id,
     author |-> modInfo.author,
     uploader |-> modInfo.uploaded_by,
     description |-> [short |-> modInfo.summary, long |-> modInfo.description],
     downloads |-> modInfo.mod_unique_downloads,
     endorsements |-> modInfo.endorsement_count,
     image |-> modInfo.picture_url,
     name |-> modInfo.name,
     timestamp |-> file.uploaded_timestamp,
     tags |-> <<>>,
     version |-> file.version,
     type |-> type,
     gameName |-> extraInfo.gameName,
     language |-> extraInfo.language]

\* dependenciesFromDescription(existing, description)
dependenciesFromDescription(existing, description) ==
    LET versionRequirement == VersionMatch(HtmlDecode(description))
    IN IF versionRequirement # NoMatch
       THEN IF existing = UndefinedDeps
            THEN [vortex |-> versionRequirement]
            ELSE Assign(existing, "vortex", versionRequirement)
       ELSE existing

\* Driver.removeNexusMod: every key but modId and fileId is deleted
removeNexusMod_KeepName(entry) ==
    [k \in DOMAIN entry \cap {"modId", "fileId", "name"} |-> entry[k]]
removeNexusMod(entry) ==
    [k \in DOMAIN entry \cap {"modId", "fileId"} |-> entry[k]]

\* The refresh flow's handling of a candidate that has no entry (the "new extension"
\* branch): it is reported for manual adding, the list is left as it is
NewExtension_Pushed(exts, modInfo, latestFile) ==
    Append(exts, makeExtension(modInfo, latestFile, CATEGORIES(modInfo.category_id),
                               [language |-> UNDEF, gameName |-> UNDEF]))
NewExtension(exts, modInfo, latestFile) == exts

RefreshExisting_FreshType(existing, modInfo, latestFile) ==
    LET type == CATEGORIES(modInfo.category_id)
        extraInfo == [language |-> Get(existing, "language"),
                      gameName |-> Get(existing, "gameName")]
        updated == existing.fileId # latestFile.file_id
        e1 == IF updated THEN Assign(existing, "fileId", latestFile.file_id) ELSE existing
    IN IF updated \/ Get(existing, "name") # UNDEF
       THEN LET e2 == ObjectAssign(e1, makeExtension(modInfo, latestFile, type, extraInfo))
                e3 == Assign(e2, "version", latestFile.version)
                e4 == Assign(e3, "description",
                             [short |-> modInfo.summary, long |-> modInfo.description])
                e5 == Assign(e4, "image", IF modInfo.picture_url # NULL
                                          THEN modInfo.picture_url
                                          ELSE Get(existing, "image"))
                e6 == Assign(e5, "name", modInfo.name)
                e7 == Assign(e6, "uploader", modInfo.uploaded_by)
                e8 == Assign(e7, "type", type)
                e9 == Assign(e8, "timestamp", latestFile.uploaded_timestamp)
            IN Assign(e9, "dependencies",
                      dependenciesFromDescription(
                          IF "dependencies" \in DOMAIN existing
                          THEN existing.dependencies ELSE UndefinedDeps,
                          latestFile.description))
       ELSE e1

RefreshExisting_OnlyWhenUpdated(existing, modInfo, latestFile) ==
    LET type == Get(existing, "type")
        extraInfo == [language |-> Get(existing, "language"),
                      gameName |-> Get(existing, "gameName")]
        updated == existing.fileId # latestFile.file_id
        e1 == IF updated THEN Assign(existing, "fileId", latestFile.file_id) ELSE existing
    IN IF updated
       THEN LET e2 == ObjectAssign(e1, makeExtension(modInfo, latestFile, type, extraInfo))
                e3 == Assign(e2, "version", latestFile.version)
                e4 == Assign(e3, "description",
                             [short |-> modInfo.summary, long |-> modInfo.description])
                e5 == Assign(e4, "image", IF modInfo.picture_url # NULL
                                          THEN modInfo.picture_url
                                          ELSE Get(existing, "image"))
                e6 == Assign(e5, "name", modInfo.name)
                e7 == Assign(e6, "uploader", modInfo.uploaded_by)
                e8 == Assign(e7, "type", type)
                e9 == Assign(e8, "timestamp", latestFile.uploaded_timestamp)
            IN Assign(e9, "dependencies",
                      dependenciesFromDescription(
                          IF "dependencies" \in DOMAIN existing
                          THEN existing.dependencies ELSE UndefinedDeps,
                          latestFile.description))
       ELSE e1

\* The refresh flow's handling of an existing entry once the latest file is known
\* (the "existing !== undefined" branch).
RefreshExisting(existing, modInfo, latestFile) ==
    LET type == Get(existing, "type")
        extraInfo == [language |-> Get(existing, "language"),
                      gameName |-> Get(existing, "gameName")]
        updated == existing.fileId # latestFile.file_id
        e1 == IF updated THEN Assign(existing, "fileId", latestFile.file_id) ELSE existing
    IN IF updated \/ Get(existing, "name") # UNDEF
       THEN LET e2 == ObjectAssign(e1, makeExtension(modInfo, latestFile, type, extraInfo))
                e3 == Assign(e2, "version", latestFile.version)
                e4 == Assign(e3, "description",
                             [short |-> modInfo.summary, long |-> modInfo.description])
                e5 == Assign(e4, "image", IF modInfo.picture_url # NULL
                                          THEN modInfo.picture_url
                                          ELSE Get(existing, "image"))
                e6 == Assign(e5, "name", modInfo.name)
                e7 == Assign(e6, "uploader", modInfo.uploaded_by)
                e8 == Assign(e7, "type", type)
                e9 == Assign(e8, "timestamp", latestFile.uploaded_timestamp)
            IN Assign(e9, "dependencies",
                      dependenciesFromDescription(
                          IF "dependencies" \in DOMAIN existing
                          THEN existing.dependencies ELSE UndefinedDeps,
                          latestFile.description))
       ELSE e1

(***************************************************************************)
(* Bounds and input alphabets                                              *)
(***************************************************************************)
\* longest description, in tokens, handed to the filter taken alone
MaxDesc == 3
\* longest file list handed to the selection taken alone
MaxFiles == 2

SeqsUpTo(S, n) == UNION {[1..k -> S] : k \in 0..n}

CmpOps      == {">=", "<"}
CmpVersions == {<<1, 8, 0>>, <<2, 0, 0>>}
Tokens == {Phrase, Text, Brk}
          \cup {Cmp(op, v) : op \in CmpOps, v \in CmpVersions}
          \cup {CmpEnc(op, v) : op \in CmpOps, v \in CmpVersions}

\* the compatibility windows the filter is tried with: the code's own, and Vortex 1.6's
Windows == {<<refVersionLow, refVersionHigh>>, <<(<<1, 6, 0>>), (<<1, 6, 999>>)>>}

\* descriptions of the files in the flows' file lists
DescNone         == <<>>
DescCompatible   == <<Phrase, Cmp(">=", <<1, 8, 0>>), Cmp("<", <<2, 0, 0>>)>>
DescIncompatible == <<Phrase, Cmp(">=", <<2, 0, 0>>)>>
DescEncodedIncompatible == <<Phrase, CmpEnc(">=", <<2, 0, 0>>)>>
DescLateIncompatible    == <<Text, Phrase, Cmp(">=", <<2, 0, 0>>)>>
FileDescs == {DescNone, DescCompatible, DescIncompatible, DescEncodedIncompatible,
              DescLateIncompatible}

FileIds        == {100, 205, 310}
FileCategories == {MainCategory, 4}

FileVersion(id) == CASE id = 100 -> "1.0.0" [] id = 205 -> "1.1.0" [] OTHER -> "1.2.0"

\* an IFileInfo of getModFiles
File(id, cat, desc) ==
    [file_id |-> id, category_id |-> cat, description |-> desc,
     version |-> FileVersion(id), uploaded_timestamp |-> id]

AllFiles == {File(id, cat, d) : id \in FileIds, cat \in FileCategories, d \in FileDescs}

\* file lists: the ids of one mod's files are distinct
FileLists(n) ==
    {l \in SeqsUpTo(AllFiles, n) :
        \A i, j \in DOMAIN l : i # j => l[i].file_id # l[j].file_id}

(***************************************************************************)
(* The marketplace, the bundled-games checkout and the manifest on disk    *)
(***************************************************************************)
\* an IModInfo of getModInfo; st = "fail" when the request is rejected
ModInfo(id, st, status, category_id, picture_url) ==
    [st |-> st, mod_id |-> id, status |-> status, category_id |-> category_id,
     picture_url |-> picture_url, name |-> "Fresh Name", author |-> "fresh author",
     uploaded_by |-> "fresh uploader", summary |-> "fresh summary",
     description |-> "fresh description", mod_unique_downloads |-> 50,
     endorsement_count |-> 7]

InfoFailed(id)        == ModInfo(id, "fail", "published", 4, "pic.png")
InfoNoPicture(id)     == ModInfo(id, "ok", "published", 4, NULL)
InfoHidden(id)        == ModInfo(id, "ok", "hidden", 4, "pic.png")
InfoHiddenNoPicture(id) == ModInfo(id, "ok", "hidden", 4, NULL)
InfoUncategorised(id) == ModInfo(id, "ok", "published", 2, "pic.png")
InfoPublished(id, category_id) == ModInfo(id, "ok", "published", category_id, "pic.png")

\* what getModFiles answers; st = "fail" when the request is rejected
FilesFailed   == [st |-> "fail", files |-> <<>>]
FilesOk(list) == [st |-> "ok", files |-> list]

\* a full marketplace entry as an earlier run left it in the file
OldEntry(id, fileId, type) ==
    [modId |-> id, fileId |-> fileId, author |-> "old author", uploader |-> "old uploader",
     description |-> [short |-> "old summary", long |-> "old description"],
     downloads |-> 10, endorsements |-> 1, image |-> "old.png", name |-> "Old Tool",
     timestamp |-> fileId, tags |-> <<"featured">>, version |-> FileVersion(fileId),
     type |-> type]

OldGameEntry(id, fileId) ==
    Assign(Assign(Assign(OldEntry(id, fileId, "game"), "gameName", "Old Game"),
                  "gameId", "oldgame"),
           "dependencies", [vortex |-> <<Cmp(">=", <<1, 6, 0>>)>>, other |-> "^2.0.0"])

OldTranslationEntry(id, fileId) ==
    Assign(OldEntry(id, fileId, "translation"), "language", "de")

Stub(id, fileId) == [modId |-> id, fileId |-> fileId]

\* a bundled entry as an earlier run left it in the file
OldBundledEntry(folder, id) ==
    [image |-> "old-gameart.jpg", name |-> "Game: Old", type |-> "game",
     github |-> "Nexus-Mods/vortex-games", githubRawPath |-> folder, id |-> id,
     hide |-> TRUE, author |-> "old author", gameName |-> "Old",
     description |-> [short |-> "old", long |-> "old"], version |-> "0.9.0"]

EmptyManifest == [last_updated |-> 0, extensions |-> <<>>]

FilterUnset == [done |-> FALSE, low |-> <<0, 0, 0>>, high |-> <<0, 0, 0>>, kept |-> FALSE]

InitFilterIdle == fdesc = <<>> /\ fres = FilterUnset
InitSelectIdle == sfiles = <<>> /\ spicked = <<>>
ValidateUnset == [done |-> FALSE, valid |-> FALSE, errors |-> <<>>]
InitValidateIdle == ventry = <<>> /\ vres = ValidateUnset
GitClean == [commits |-> 0, pushed |-> 0]
InitPublishIdle ==
    git = GitClean /\ commented = {} /\ completed = {} /\ publishResults = <<>>

InitFlowsIdle ==
    /\ InitPublishIdle
    /\ canonical = EmptyManifest
    /\ archive = <<>>
    /\ manifest = EmptyManifest
    /\ pc = "none"
    /\ exitCode = "none"
    /\ clock = 0
    /\ site = <<>>
    /\ recent = <<>>
    /\ gamesDir = <<>>
    /\ gamePage = <<>>
    /\ env = <<>>
    /\ requests = <<>>
    /\ results = <<>>
    /\ now = 0
    /\ combinedMods = <<>>
    /\ task = <<>>
    /\ gtask = <<>>
    /\ updatedExtensions = <<>>
    /\ addedExtensions = <<>>
    /\ removed = {}
    /\ before = EmptyManifest
    /\ runs = 0

(***************************************************************************)
(* Saving the manifest (Driver.writeManifestFile)                          *)
(***************************************************************************)
ONE_MINUTE == 60 * 1000

\* getFormattedDate(new Date()): the date to the minute
getFormattedDate(t) == t \div ONE_MINUTE

ArchiveWritten(data) ==
    [n \in DOMAIN archive \cup {getFormattedDate(clock)} |->
        IF n = getFormattedDate(clock) THEN JsonManifest(data) ELSE archive[n]]

(***************************************************************************)
(* The refresh flow: Driver.process of update-extensions-manifest          *)
(***************************************************************************)
\* runs of the refresh flow in one behaviour
MaxRuns == 2

Dedupe_Keep(list) == list

\* [...new Set(list)]: the first occurrence of each value, in order
RECURSIVE Dedupe(_)
Dedupe(list) ==
    IF list = <<>> THEN <<>>
    ELSE LET front == Dedupe(SubSeq(list, 1, Len(list) - 1))
             last  == list[Len(list)]
         IN IF last \in Range(front) THEN front ELSE Append(front, last)

\* getUpdatesSince: the entries newer than the timestamp (seconds against milliseconds)
getUpdatesSince(timestamp) ==
    SelectSeq(recent.list,
              LAMBDA entry : \/ entry.latest_file_update * 1000 > timestamp
                             \/ entry.latest_mod_activity * 1000 > timestamp)

\* the mod ids of all marketplace entries of the manifest
knownMods(exts) ==
    LET marketplace == SelectSeq(exts, LAMBDA extension : "modId" \in DOMAIN extension)
    IN [i \in DOMAIN marketplace |-> marketplace[i].modId]

CombinedMods(timestamp, exts) ==
    LET updates == [i \in DOMAIN getUpdatesSince(timestamp) |->
                       getUpdatesSince(timestamp)[i].mod_id]
    IN Dedupe(updates \o knownMods(exts))

\* the process ends with a failure: process.exit(1), or a rejection nobody handles
Exit1 == pc' = "exited" /\ exitCode' = "1"

StartRun ==
    /\ pc \in {"idle", "done"}
    /\ runs < MaxRuns
    /\ runs' = runs + 1
    /\ manifest' = canonical
    /\ before' = canonical
    /\ now' = clock
    /\ pc' = "updates"
    /\ exitCode' = "none"
    /\ combinedMods' = <<>>
    /\ task' = <<>>
    /\ gtask' = <<>>
    /\ updatedExtensions' = <<>>
    /\ addedExtensions' = <<>>
    /\ removed' = {}
    /\ UNCHANGED <<clock, diskVars, worldVars, pureVars, results>>

\* await this.getUpdatesSince(nexus, lastUpdate), then the candidates are set up
GetUpdates ==
    /\ pc = "updates"
    /\ IF recent.st = "fail"
       THEN /\ Exit1
            /\ UNCHANGED <<combinedMods, task>>
       ELSE /\ combinedMods' = CombinedMods(manifest.last_updated, manifest.extensions)
            /\ task' = [m \in Range(combinedMods') |-> "info"]
            /\ pc' = "mods"
            /\ UNCHANGED exitCode
    /\ UNCHANGED <<manifest, clock, now, gtask, updatedExtensions, addedExtensions, removed,
                   before, runs, diskVars, worldVars, pureVars, results>>

\* the entry at index i is replaced by e
SetEntry(i, e) == manifest' = [manifest EXCEPT !.extensions[i] = e]

RemoveIfExisting_OrStub(m) ==
    LET i == FindByModId(manifest.extensions, m)
    IN IF i # 0
       THEN /\ SetEntry(i, removeNexusMod(manifest.extensions[i]))
            /\ removed' = removed \cup {m}
       ELSE /\ manifest' = [manifest EXCEPT !.extensions = Append(@, Stub(m, 100))]
            /\ UNCHANGED removed

\* the existing entry of mod m, if any, goes through removeNexusMod
RemoveIfExisting(m) ==
    LET i == FindByModId(manifest.extensions, m)
    IN IF i # 0
       THEN /\ SetEntry(i, removeNexusMod(manifest.extensions[i]))
            /\ removed' = removed \cup {m}
       ELSE UNCHANGED <<manifest, removed>>

InfoSettled_NoCategoryTest(m) ==
    /\ pc = "mods"
    /\ m \in DOMAIN task
    /\ task[m] = "info"
    /\ LET modInfo == site[m].info
       IN IF modInfo.st = "fail" \/ modInfo.picture_url = NULL
          THEN /\ task' = [task EXCEPT ![m] = "done"]
               /\ UNCHANGED <<manifest, removed>>
          ELSE IF modInfo.status # "published"
          THEN /\ RemoveIfExisting(m)
               /\ task' = [task EXCEPT ![m] = "done"]
          ELSE /\ task' = [task EXCEPT ![m] = "files"]
               /\ UNCHANGED <<manifest, removed>>
    /\ UNCHANGED <<pc, exitCode, clock, now, combinedMods, gtask, updatedExtensions,
                   addedExtensions, before, runs, diskVars, worldVars, pureVars, results>>

\* nexus.getModInfo(entry) has settled: the callback runs up to its next await
InfoSettled(m) ==
    /\ pc = "mods"
    /\ m \in DOMAIN task
    /\ task[m] = "info"
    /\ LET modInfo == site[m].info
       IN IF modInfo.st = "fail" \/ modInfo.picture_url = NULL
          THEN /\ task' = [task EXCEPT ![m] = "done"]
               /\ UNCHANGED <<manifest, removed>>
          ELSE IF modInfo.status # "published"
          THEN /\ RemoveIfExisting(m)
               /\ task' = [task EXCEPT ![m] = "done"]
          ELSE IF CATEGORIES(modInfo.category_id) = UNDEF
          THEN /\ task' = [task EXCEPT ![m] = "done"]
               /\ UNCHANGED <<manifest, removed>>
          ELSE /\ task' = [task EXCEPT ![m] = "files"]
               /\ UNCHANGED <<manifest, removed>>
    /\ UNCHANGED <<pc, exitCode, clock, now, combinedMods, gtask, updatedExtensions,
                   addedExtensions, before, runs, diskVars, worldVars, pureVars, results>>

\* nexus.getModFiles(entry) has settled: the rest of the callback runs.  The await is
\* outside every try: a rejection rejects Promise.all and Driver.process, nobody
\* handles it, and Node 18 ends the process with exit code 1.
FilesSettled(m) ==
    /\ pc = "mods"
    /\ m \in DOMAIN task
    /\ task[m] = "files"
    /\ IF site[m].files.st = "fail"
       THEN /\ Exit1
            /\ UNCHANGED <<manifest, task, updatedExtensions, addedExtensions, removed>>
       ELSE LET modInfo  == site[m].info
                modFiles == site[m].files.files
                i        == FindByModId(manifest.extensions, m)
            IN /\ task' = [task EXCEPT ![m] = "done"]
               /\ UNCHANGED <<pc, exitCode>>
               /\ IF Len(FilteredFiles(modFiles)) = 0
                  THEN /\ RemoveIfExisting(m)
                       /\ UNCHANGED <<updatedExtensions, addedExtensions>>
                  ELSE LET latestFile == LatestFileRefresh(modFiles)
                       IN IF i # 0
                          THEN /\ SetEntry(i, RefreshExisting(manifest.extensions[i],
                                                              modInfo, latestFile))
                               /\ updatedExtensions' =
                                     IF manifest.extensions[i].fileId # latestFile.file_id
                                     THEN Append(updatedExtensions, m)
                                     ELSE updatedExtensions
                               /\ UNCHANGED <<addedExtensions, removed>>
                          ELSE /\ addedExtensions' = Append(addedExtensions, m)
                               /\ manifest' = [manifest EXCEPT !.extensions =
                                                  NewExtension(@, modInfo, latestFile)]
                               /\ UNCHANGED <<updatedExtensions, removed>>
    /\ UNCHANGED <<clock, now, combinedMods, gtask, before, runs, diskVars, worldVars,
                   pureVars, results>>

\* excluded games
GAME_EXCLUSIONLIST == {"game-subnautica", "game-subnauticabelowzero"}

\* dirName.startsWith('game-'), for the folder names of the modelled checkout
StartsWithGame(dirName) == dirName \in {"game-alpha", "game-beta", "game-subnautica"}

\* info.name.slice(6), for the descriptor names of the modelled checkout
Slice6(name) ==
    CASE name = "Game: Alpha" -> "Alpha"
      [] name = "Game: Beta"  -> "Beta"
      [] OTHER                -> ""

\* the gameart URL derived from the folder name
GameArt(gameId) ==
    CASE gameId = "game-alpha" -> "release/game-alpha/gameart.jpg"
      [] gameId = "game-beta"  -> "release/game-beta/gameart.jpg"
      [] OTHER                 -> "release/gameart.jpg"

\* the game folders processGames works on, in readdir order
gameList ==
    LET kept == SelectSeq(gamesDir, LAMBDA d : /\ StartsWithGame(d.dirName)
                                               /\ d.dirName \notin GAME_EXCLUSIONLIST)
    IN [i \in DOMAIN kept |-> kept[i].dirName]

InfoOf(gameId) ==
    LET d == CHOOSE x \in Range(gamesDir) : x.dirName = gameId IN d.info

\* info.id || gameId
BundledId(info, gameId) == IF info.id # "" THEN info.id ELSE gameId

FindBundled_AtStart(exts, id) ==
    LET at == {i \in DOMAIN before.extensions :
                  /\ "modId" \notin DOMAIN before.extensions[i]
                  /\ "id" \in DOMAIN before.extensions[i]
                  /\ before.extensions[i].id = id}
    IN IF at = {} THEN 0 ELSE CHOOSE i \in at : \A j \in at : i <= j

\* manifest.extensions.find((ext) => ext.modId === undefined && ext.id === id)
FindBundled(exts, id) ==
    LET at == {i \in DOMAIN exts : /\ "modId" \notin DOMAIN exts[i]
                                   /\ "id" \in DOMAIN exts[i]
                                   /\ exts[i].id = id}
    IN IF at = {} THEN 0 ELSE CHOOSE i \in at : \A j \in at : i <= j

\* the fields processGames sets on the found or created entry
SyncBundled(existing, info, gameId) ==
    LET e1 == Assign(existing, "id", BundledId(info, gameId))
        e2 == Assign(e1, "hide", TRUE)
        e3 == Assign(e2, "author", info.author)
        e4 == Assign(e3, "gameName", Slice6(info.name))
        e5 == Assign(e4, "description", [short |-> info.description,
                                         long |-> info.description])
    IN Assign(e5, "version", info.version)

NewBundled(info, gameId) ==
    [image |-> GameArt(gameId), name |-> info.name, type |-> "game",
     github |-> "Nexus-Mods/vortex-games", githubRawPath |-> gameId]

\* Promise.all of processNexusMods has resolved; processGames lists the folders
ModsSettled ==
    /\ pc = "mods"
    /\ \A m \in DOMAIN task : task[m] = "done"
    /\ pc' = "games"
    /\ gtask' = [g \in Range(gameList) |-> "read"]
    /\ UNCHANGED <<manifest, exitCode, clock, now, combinedMods, task, updatedExtensions,
                   addedExtensions, removed, before, runs, diskVars, worldVars, pureVars, results>>

\* fs.readFile of one info.json has resolved: the rest of the callback runs
GameSettled(gameId) ==
    /\ pc = "games"
    /\ gameId \in DOMAIN gtask
    /\ gtask[gameId] = "read"
    /\ LET info == InfoOf(gameId)
           i    == FindBundled(manifest.extensions, BundledId(info, gameId))
       IN IF i = 0
          THEN manifest' = [manifest EXCEPT !.extensions =
                               Append(@, SyncBundled(NewBundled(info, gameId), info, gameId))]
          ELSE SetEntry(i, SyncBundled(manifest.extensions[i], info, gameId))
    /\ gtask' = [gtask EXCEPT ![gameId] = "done"]
    /\ UNCHANGED <<pc, exitCode, clock, now, combinedMods, task, updatedExtensions,
                   addedExtensions, removed, before, runs, diskVars, worldVars, pureVars, results>>

GamesSettled_Early ==
    /\ pc = "games"
    /\ manifest' = [manifest EXCEPT !.last_updated = now]
    /\ pc' = "archive"
    /\ UNCHANGED <<exitCode, clock, now, combinedMods, task, gtask, updatedExtensions,
                   addedExtensions, removed, before, runs, diskVars, worldVars, pureVars, results>>

\* Promise.all of processGames has resolved; this.manifest.last_updated = now
GamesSettled ==
    /\ pc = "games"
    /\ \A g \in DOMAIN gtask : gtask[g] = "done"
    /\ manifest' = [manifest EXCEPT !.last_updated = now]
    /\ pc' = "archive"
    /\ UNCHANGED <<exitCode, clock, now, combinedMods, task, gtask, updatedExtensions,
                   addedExtensions, removed, before, runs, diskVars, worldVars, pureVars, results>>

\* writeManifestFile: the archive copy. A rejected fs.writeFile is handled
\* nowhere up to start(): the process ends with a failure, the file as it was.
WriteArchive ==
    /\ pc = "archive"
    /\ \/ /\ archive' = ArchiveWritten(manifest)
          /\ pc' = "main"
          /\ UNCHANGED exitCode
       \/ /\ Exit1
          /\ UNCHANGED archive
    /\ UNCHANGED <<canonical, manifest, clock, worldVars, refreshVars, pureVars, results>>

WriteMain_Swallowed ==
    /\ pc = "main"
    /\ \/ canonical' = JsonManifest(manifest)
       \/ UNCHANGED canonical
    /\ pc' = "done"
    /\ exitCode' = "0"
    /\ clock' = clock + ONE_MINUTE
    /\ UNCHANGED <<archive, manifest, worldVars, refreshVars, pureVars, results>>

\* writeManifestFile: the main file; Driver.process returns and the process ends,
\* or the write is rejected and the process ends with a failure.
\* Wall-clock time has passed when the next run starts.
WriteMain ==
    /\ pc = "main"
    /\ \/ /\ canonical' = JsonManifest(manifest)
          /\ pc' = "done"
          /\ exitCode' = "0"
          /\ clock' = clock + ONE_MINUTE
       \/ /\ Exit1
          /\ UNCHANGED <<canonical, clock>>
    /\ UNCHANGED <<archive, manifest, worldVars, refreshVars, pureVars, results>>

\* ---- what a run of the refresh flow can start from
RefreshMods == {42, 598}

RefreshFileLists ==
    {<<File(100, 4, DescNone)>>,
     <<File(100, MainCategory, DescIncompatible)>>,
     <<File(100, MainCategory, DescNone), File(205, MainCategory, DescNone)>>,
     <<File(205, MainCategory, DescCompatible), File(100, MainCategory, DescNone)>>,
     <<File(100, MainCategory, DescNone), File(205, MainCategory, DescIncompatible)>>}

SiteOf(id) ==
    {[info |-> i, files |-> FilesFailed] :
        i \in {InfoFailed(id), InfoNoPicture(id), InfoHidden(id), InfoHiddenNoPicture(id),
              InfoUncategorised(id), ModInfo(id, "ok", "hidden", 2, "pic.png")}}
    \cup {[info |-> InfoUncategorised(id),
           files |-> FilesOk(<<File(100, MainCategory, DescNone)>>)]}
    \cup {[info |-> InfoPublished(id, 4), files |-> f] :
            f \in {FilesFailed} \cup {FilesOk(l) : l \in RefreshFileLists}}

SiteOfSecond(id) ==
    {[info |-> InfoFailed(id), files |-> FilesFailed],
     [info |-> InfoHidden(id), files |-> FilesFailed],
     [info |-> InfoPublished(id, 13), files |-> FilesFailed],
     [info |-> InfoPublished(id, 13),
      files |-> FilesOk(<<File(100, MainCategory, DescNone),
                          File(205, MainCategory, DescNone)>>)]}

EntriesOf(id) ==
    {<<>>, <<Stub(id, 100)>>, <<Stub(id, 205)>>, <<OldGameEntry(id, 100)>>,
     <<OldEntry(id, 205, NULL)>>}

EntriesOfSecond(id) ==
    {<<>>, <<OldTranslationEntry(id, 100)>>, <<Stub(id, 205)>>}

Update(id, file, activity) ==
    [mod_id |-> id, latest_file_update |-> file, latest_mod_activity |-> activity]

RecentAnswers ==
    {[st |-> "fail", list |-> <<>>],
     [st |-> "ok", list |-> <<Update(598, 6, 6), Update(42, 4, 6), Update(598, 4, 4)>>],
     [st |-> "ok", list |-> <<Update(42, 4, 4)>>]}

GameInfo(id, name, version) ==
    [id |-> id, name |-> name, author |-> "Nexus Mods", description |-> name,
     version |-> version]

Checkouts ==
    {<<[dirName |-> "assets", info |-> GameInfo("", "", "")],
       [dirName |-> "game-alpha", info |-> GameInfo(a, "Game: Alpha", "1.0.0")],
       [dirName |-> "game-beta", info |-> GameInfo(b, "Game: Beta", "2.0.0")],
       [dirName |-> "game-subnautica", info |-> GameInfo("", "Game: Subnautica", "1.0.0")]>> :
        a \in {"", "shared"}, b \in {"", "shared"}}

BundledBefore == {<<>>, <<OldBundledEntry("game-alpha", "game-alpha")>>}

InitRefresh ==
    /\ \E first \in EntriesOf(42), bundled \in BundledBefore, second \in EntriesOfSecond(598) :
          canonical = [last_updated |-> 5000, extensions |-> first \o bundled \o second]
    /\ archive = <<>>
    /\ manifest = EmptyManifest
    /\ pc = "idle"
    /\ exitCode = "none"
    /\ clock = ONE_MINUTE
    /\ \E s1 \in SiteOf(42), s2 \in SiteOfSecond(598) : site = (42 :> s1) @@ (598 :> s2)
    /\ recent \in RecentAnswers
    /\ gamesDir \in Checkouts
    /\ gamePage = <<>>
    /\ env = <<>>
    /\ requests = <<>>
    /\ results = <<>>
    /\ now = 0
    /\ combinedMods = <<>>
    /\ task = <<>>
    /\ gtask = <<>>
    /\ updatedExtensions = <<>>
    /\ addedExtensions = <<>>
    /\ removed = {}
    /\ before = EmptyManifest
    /\ runs = 0
    /\ InitFilterIdle
    /\ InitSelectIdle
    /\ InitValidateIdle
    /\ InitPublishIdle

NextRefresh ==
    \/ StartRun
    \/ GetUpdates
    \/ \E m \in RefreshMods : InfoSettled(m)
    \/ \E m \in RefreshMods : FilesSettled(m)
    \/ ModsSettled
    \/ \E g \in {"game-alpha", "game-beta"} : GameSettled(g)
    \/ GamesSettled
    \/ WriteArchive
    \/ WriteMain

SpecRefresh == InitRefresh /\ [][NextRefresh]_vars

(***************************************************************************)
(* The single-item add flow: Driver.process of add-extension                *)
(***************************************************************************)
\* value ?? fallback
Coalesce(value, fallback) == IF value \in {NULL, UNDEF} THEN fallback ELSE value

\* +EXT_MODID and parseInt(extensionModId, 10) on the ids that occur
ToNumber(text) == CASE text = "42" -> 42 [] text = "598" -> 598 [] OTHER -> 0

\* Driver.getManifestEntryTemplate (BatchProcessor carries the same code)
getManifestEntryTemplate(modInfo, file, type) ==
    [modId |-> modInfo.mod_id,
     fileId |-> file.file_id,
     author |-> modInfo.author,
     uploader |-> modInfo.uploaded_by,
     description |-> [short |-> Coalesce(modInfo.summary, ""),
                      long |-> Coalesce(modInfo.description, "")],
     downloads |-> modInfo.mod_unique_downloads,
     endorsements |-> modInfo.endorsement_count,
     image |-> modInfo.picture_url,
     name |-> modInfo.name,
     timestamp |-> file.uploaded_timestamp,
     tags |-> <<>>,
     version |-> file.version,
     type |-> type]

\* extension.type = null: null indicates a tool
createManifestEntryForTool_Named(modInfo, file, type) ==
    Assign(getManifestEntryTemplate(modInfo, file, type), "type", "tool")
createManifestEntryForTool(modInfo, file, type) ==
    Assign(getManifestEntryTemplate(modInfo, file, type), "type", NULL)

\* `.../images/games/4_3/tile_${gameInfo.id}.jpg`
GameTile(gameInfo) == IF gameInfo.id = 110 THEN "tile_110.jpg" ELSE "tile_0.jpg"

createManifestEntryForGame_NoGameId(modInfo, file, type, gameInfo) ==
    LET e1 == Assign(getManifestEntryTemplate(modInfo, file, type), "image",
                     Coalesce(modInfo.picture_url, GameTile(gameInfo)))
    IN Assign(e1, "gameName", gameInfo.name)
createManifestEntryForGame(modInfo, file, type, gameInfo) ==
    LET e1 == Assign(getManifestEntryTemplate(modInfo, file, type), "image",
                     Coalesce(modInfo.picture_url, GameTile(gameInfo)))
        e2 == Assign(e1, "gameName", gameInfo.name)
    IN Assign(e2, "gameId", gameInfo.domain_name)

createManifestEntryForTheme(modInfo, file, type) ==
    getManifestEntryTemplate(modInfo, file, type)

createManifestEntryForTranslation(modInfo, file, type, languageTag) ==
    Assign(getManifestEntryTemplate(modInfo, file, type), "language", languageTag)

\* start() and Driver.process up to the first request to the site
AddStart ==
    /\ pc \in {"idle", "done"}
    /\ runs < MaxRuns
    /\ runs' = runs + 1
    /\ before' = canonical
    /\ IF env.NEXUS_APIKEY = "" \/ env.EXT_MODID = ""
       THEN /\ Exit1
            /\ UNCHANGED <<manifest, now>>
       ELSE /\ manifest' = canonical
            /\ now' = clock
            /\ pc' = "add:info"
            /\ exitCode' = "none"
    /\ UNCHANGED <<clock, combinedMods, task, gtask, updatedExtensions, addedExtensions,
                   removed, diskVars, worldVars, pureVars, results>>

\* this.manifest.extensions.find((ext) => ext.modId === modid), then the push
AddEntry_Always(newManifestEntry) ==
    /\ manifest' = [manifest EXCEPT !.extensions = Append(@, newManifestEntry),
                                    !.last_updated = now]
    /\ pc' = "add:archive"
    /\ UNCHANGED exitCode
AddEntry(newManifestEntry) ==
    IF FindByModId(manifest.extensions, ToNumber(env.EXT_MODID)) # 0
    THEN Exit1 /\ UNCHANGED manifest
    ELSE /\ manifest' = [manifest EXCEPT !.extensions = Append(@, newManifestEntry),
                                         !.last_updated = now]
         /\ pc' = "add:archive"
         /\ UNCHANGED exitCode

\* nexus.getModInfo settles, then the checks on status and category
AddInfoSettled ==
    /\ pc = "add:info"
    /\ LET modInfo == site[ToNumber(env.EXT_MODID)].info
       IN IF \/ modInfo.st = "fail"
             \/ modInfo.status # "published"
             \/ CATEGORIES(modInfo.category_id) = UNDEF
          THEN Exit1
          ELSE pc' = "add:files" /\ UNCHANGED exitCode
    /\ UNCHANGED <<manifest, clock, refreshVars, diskVars, worldVars, pureVars, results>>

\* nexus.getModFiles settles (a rejection is not caught), the tracked file is chosen
\* and the entry is built; a game with a game domain waits for the game page
AddFilesSettled ==
    /\ pc = "add:files"
    /\ LET modInfo       == site[ToNumber(env.EXT_MODID)].info
           modFiles      == site[ToNumber(env.EXT_MODID)].files
           extensionType == CATEGORIES(modInfo.category_id)
           latestFile    == LatestFileAdd(modFiles.files)
       IN IF modFiles.st = "fail" \/ MainFiles(modFiles.files) = <<>>
          THEN Exit1 /\ UNCHANGED manifest
          ELSE IF extensionType = "game"
               THEN IF env.EXT_GAMEDOMAIN # ""
                    THEN pc' = "add:game" /\ UNCHANGED <<manifest, exitCode>>
                    ELSE AddEntry(createManifestEntryForTool(modInfo, latestFile,
                                                             extensionType))
               ELSE IF extensionType = "translation"
                    THEN IF env.EXT_LANGUAGE_CODE = ""
                         THEN Exit1 /\ UNCHANGED manifest
                         ELSE AddEntry(createManifestEntryForTranslation(
                                          modInfo, latestFile, extensionType,
                                          env.EXT_LANGUAGE_CODE))
                    ELSE AddEntry(createManifestEntryForTheme(modInfo, latestFile,
                                                              extensionType))
    /\ UNCHANGED <<clock, refreshVars, diskVars, worldVars, pureVars, results>>

\* nexus.getGameInfo settles
AddGameSettled ==
    /\ pc = "add:game"
    /\ LET modInfo    == site[ToNumber(env.EXT_MODID)].info
           latestFile == LatestFileAdd(site[ToNumber(env.EXT_MODID)].files.files)
       IN IF gamePage.st = "fail"
          THEN Exit1 /\ UNCHANGED manifest
          ELSE AddEntry(createManifestEntryForGame(modInfo, latestFile, "game", gamePage))
    /\ UNCHANGED <<clock, refreshVars, diskVars, worldVars, pureVars, results>>

\* writeManifestFile: the archive copy
AddWriteArchive ==
    /\ pc = "add:archive"
    /\ archive' = ArchiveWritten(manifest)
    /\ pc' = "add:main"
    /\ UNCHANGED <<canonical, manifest, exitCode, clock, worldVars, refreshVars, pureVars,
                   results>>

\* writeManifestFile: the main file; the process ends
AddWriteMain ==
    /\ pc = "add:main"
    /\ canonical' = JsonManifest(manifest)
    /\ pc' = "done"
    /\ exitCode' = "0"
    /\ clock' = clock + ONE_MINUTE
    /\ UNCHANGED <<archive, manifest, worldVars, refreshVars, pureVars, results>>

\* ---- what a run of the add flow can start from
GamePages ==
    {[st |-> "fail", id |-> 0, name |-> "", domain_name |-> ""],
     [st |-> "ok", id |-> 110, name |-> "Skyrim", domain_name |-> "skyrim"],
     [st |-> "ok", id |-> 110, name |-> "", domain_name |-> "skyrim"]}

FlowSiteOf(id) ==
    SiteOf(id) \cup
    {[info |-> InfoNoPicture(id),
      files |-> FilesOk(<<File(100, MainCategory, DescNone)>>)]}

FlowSiteOfSecond(id) ==
    {[info |-> InfoFailed(id), files |-> FilesFailed],
     [info |-> InfoPublished(id, 7), files |-> FilesOk(<<File(310, MainCategory, DescNone)>>)],
     [info |-> InfoPublished(id, 13),
      files |-> FilesOk(<<File(100, MainCategory, DescNone),
                          File(205, MainCategory, DescNone)>>)]}

FlowManifests ==
    {[last_updated |-> 5000, extensions |-> first \o second] :
        first \in {<<>>, <<OldEntry(42, 100, NULL)>>, <<Stub(42, 100)>>},
        second \in {<<>>, <<OldTranslationEntry(598, 100)>>}}

\* DRYRUN is in the environment of the process, which never reads it
AddEnvs ==
    [NEXUS_APIKEY : {"", "key"}, EXT_MODID : {"", "42", "598"},
     EXT_GAMEDOMAIN : {"", "skyrim"}, EXT_LANGUAGE_CODE : {"", "de"}, DRYRUN : BOOLEAN]

InitAdd ==
    /\ canonical \in FlowManifests
    /\ archive = <<>>
    /\ manifest = EmptyManifest
    /\ pc = "idle"
    /\ exitCode = "none"
    /\ clock = ONE_MINUTE
    /\ \E s1 \in FlowSiteOf(42), s2 \in FlowSiteOfSecond(598) : site = (42 :> s1) @@ (598 :> s2)
    /\ recent = <<>>
    /\ gamesDir = <<>>
    /\ gamePage \in GamePages
    /\ env \in AddEnvs
    /\ requests = <<>>
    /\ results = <<>>
    /\ now = 0
    /\ combinedMods = <<>>
    /\ task = <<>>
    /\ gtask = <<>>
    /\ updatedExtensions = <<>>
    /\ addedExtensions = <<>>
    /\ removed = {}
    /\ before = EmptyManifest
    /\ runs = 0
    /\ InitFilterIdle
    /\ InitSelectIdle
    /\ InitValidateIdle
    /\ InitPublishIdle

NextAdd ==
    \/ AddStart
    \/ AddInfoSettled
    \/ AddFilesSettled
    \/ AddGameSettled
    \/ AddWriteArchive
    \/ AddWriteMain

SpecAdd == InitAdd /\ [][NextAdd]_vars

(***************************************************************************)
(* validateManifestEntry / normalizeManifestEntry                           *)
(***************************************************************************)
getExpectedFieldOrder ==
    <<"modId", "fileId", "author", "uploader", "description", "downloads", "endorsements",
      "image", "name", "timestamp", "tags", "version", "type", "gameName">>

\* typeof entry[key] === 'number': the numeric keys hold a number when they are present
IsNumber(entry, key) == key \in DOMAIN entry

\* typeof entry[key] === 'string'
IsString(entry, key) == key \in DOMAIN entry /\ entry[key] \notin {NULL, UNDEF}

\* normalizeManifestEntry: the expected fields whose value !== undefined
normalizeManifestEntry(entry) ==
    LET kept == {k \in Range(getExpectedFieldOrder) \cap DOMAIN entry :
                    ~IsUndefined(k, entry[k])}
    IN [k \in kept |-> entry[k]]

\* errors.push(message) when the test of a rule is true
Err(failed, message) == IF failed THEN <<message>> ELSE <<>>

\* validateManifestEntry(entry).errors: every rule is tested, in this order
validateManifestEntryErrors(entry) ==
    Err(~IsNumber(entry, "modId"), "modId must be a number")
    \o Err(~IsNumber(entry, "fileId"), "fileId must be a number")
    \o Err(~IsString(entry, "author"), "author must be a string")
    \o Err(~IsString(entry, "uploader"), "uploader must be a string")
    \o (IF "description" \notin DOMAIN entry
        THEN <<"description must be an object">>
        ELSE Err(entry.description.short \in {NULL, UNDEF},
                 "description.short must be a string")
             \o Err(entry.description.long \in {NULL, UNDEF},
                    "description.long must be a string"))
    \o Err(~IsNumber(entry, "downloads"), "downloads must be a number")
    \o Err(~IsNumber(entry, "endorsements"), "endorsements must be a number")
    \o Err(~(Get(entry, "image") = UNDEF \/ IsString(entry, "image")),
           "image must be a string or undefined")
    \o Err(~IsString(entry, "name"), "name must be a string")
    \o Err(~IsNumber(entry, "timestamp"), "timestamp must be a number")
    \o Err("tags" \notin DOMAIN entry, "tags must be an array")
    \o Err(~IsString(entry, "version"), "version must be a string")
    \o Err(~(Get(entry, "type") = NULL \/ IsString(entry, "type")),
           "type must be a string or null")
    \o Err(~(Get(entry, "gameName") = UNDEF \/ IsString(entry, "gameName")),
           "gameName must be a string or undefined")
    \o Err(Get(entry, "type") = "game" /\ Get(entry, "gameName") \in {UNDEF, NULL, ""},
           "game extensions must have a gameName")

\* validateManifestEntry(entry).valid: errors.length === 0
validateManifestEntry(entry) == validateManifestEntryErrors(entry) = <<>>

(***************************************************************************)
(* The batch flow: BatchProcessor.process of process-review-requests        *)
(***************************************************************************)
\* queued review requests in one run
MaxRequests == 2

Failure(error) == [success |-> FALSE, error |-> error]
Success(entry) == [success |-> TRUE, entry |-> entry]

\* the entry processRequest builds once the item and its files are known
BatchEntry(request, modInfo, latestFile, extensionType) ==
    IF extensionType = "game"
    THEN IF request.reviewDetails.gameDomain # ""
         THEN createManifestEntryForGame(modInfo, latestFile, extensionType, gamePage)
         ELSE createManifestEntryForTool(modInfo, latestFile, extensionType)
    ELSE IF extensionType = "translation"
         THEN createManifestEntryForTranslation(modInfo, latestFile, extensionType, "en")
         ELSE createManifestEntryForTheme(modInfo, latestFile, extensionType)

\* BatchProcessor.processRequest: every failure is a result, none is thrown
processRequest(exts, request) ==
    LET modId == ToNumber(request.reviewDetails.extensionModId)
    IN IF request.reviewDetails.extensionModId = ""
       THEN Failure("Missing extension mod ID")
       ELSE IF FindByModId(exts, modId) # 0
       THEN Failure("Extension already exists in manifest")
       ELSE IF site[modId].info.st = "fail"
       THEN Failure("Failed to fetch mod info")
       ELSE IF site[modId].info.status # "published"
       THEN Failure("Mod is not published")
       ELSE IF CATEGORIES(site[modId].info.category_id) = UNDEF
       THEN Failure("Not a valid extension category")
       ELSE IF site[modId].files.st = "fail"
       THEN Failure("Unexpected error")
       ELSE IF MainFiles(site[modId].files.files) = <<>>
       THEN Failure("Mod has no main file")
       ELSE IF /\ CATEGORIES(site[modId].info.category_id) = "game"
               /\ request.reviewDetails.gameDomain # ""
               /\ gamePage.st = "fail"
       THEN Failure("Failed to fetch game info")
       ELSE LET normalizedEntry ==
                    normalizeManifestEntry(
                        BatchEntry(request, site[modId].info,
                                   LatestFileBatch(site[modId].files.files),
                                   CATEGORIES(site[modId].info.category_id)))
            IN IF ~validateManifestEntry(normalizedEntry)
               THEN Failure("Entry validation failed")
               ELSE Success(normalizedEntry)

\* start() and BatchProcessor.process up to the loop over the requests
BatchStart ==
    /\ pc \in {"idle", "done"}
    /\ runs < MaxRuns
    /\ runs' = runs + 1
    /\ before' = canonical
    /\ results' = <<>>
    /\ IF env.NEXUS_APIKEY = ""
       THEN Exit1 /\ UNCHANGED manifest
       ELSE /\ manifest' = canonical
            /\ IF requests = <<>>
               THEN pc' = "done" /\ exitCode' = "0"
               ELSE pc' = "batch:requests" /\ exitCode' = "none"
    /\ UNCHANGED <<clock, now, combinedMods, task, gtask, updatedExtensions,
                   addedExtensions, removed, diskVars, worldVars, pureVars>>

\* one turn of the loop: results.push(await this.processRequest(request, nexus))
ProcessRequest ==
    /\ pc = "batch:requests"
    /\ Len(results) < Len(requests)
    /\ results' = Append(results,
                         processRequest(manifest.extensions, requests[Len(results) + 1]))
    /\ UNCHANGED <<procVars, refreshVars, diskVars, worldVars, pureVars>>

\* results.filter(r => r.success && r.entry), in order
Successful(rs) == SelectSeq(rs, LAMBDA r : r.success)

\* the entries of the successful results, each pushed to the list
PushAll(exts, successful) == exts \o [i \in DOMAIN successful |-> successful[i].entry]

MergeResults_WritesAnyway ==
    /\ pc = "batch:requests"
    /\ Len(results) = Len(requests)
    /\ IF Successful(results) = <<>>
       THEN pc' = "done" /\ exitCode' = "0" /\ UNCHANGED manifest
       ELSE /\ manifest' = [manifest EXCEPT
                               !.extensions = PushAll(@, Successful(results)),
                               !.last_updated = clock]
            /\ pc' = "batch:archive" /\ UNCHANGED exitCode
    /\ UNCHANGED <<clock, refreshVars, diskVars, worldVars, pureVars, results>>

\* after the loop: the successful entries are pushed, the timestamp is set and
\* writeManifestFile is entered; with DRYRUN it returns at once
MergeResults ==
    /\ pc = "batch:requests"
    /\ Len(results) = Len(requests)
    /\ IF Successful(results) = <<>>
       THEN pc' = "done" /\ exitCode' = "0" /\ UNCHANGED manifest
       ELSE /\ manifest' = [manifest EXCEPT
                               !.extensions = PushAll(@, Successful(results)),
                               !.last_updated = clock]
            /\ IF env.DRYRUN
               THEN pc' = "done" /\ exitCode' = "0"
               ELSE pc' = "batch:archive" /\ UNCHANGED exitCode
    /\ UNCHANGED <<clock, refreshVars, diskVars, worldVars, pureVars, results>>

\* writeManifestFile: the archive copy
BatchWriteArchive ==
    /\ pc = "batch:archive"
    /\ archive' = ArchiveWritten(manifest)
    /\ pc' = "batch:main"
    /\ UNCHANGED <<canonical, manifest, exitCode, clock, worldVars, refreshVars, pureVars,
                   results>>

\* writeManifestFile: the main file; the process ends
BatchWriteMain ==
    /\ pc = "batch:main"
    /\ canonical' = JsonManifest(manifest)
    /\ pc' = "done"
    /\ exitCode' = "0"
    /\ clock' = clock + ONE_MINUTE
    /\ UNCHANGED <<archive, manifest, worldVars, refreshVars, pureVars, results>>

\* ---- what a run of the batch flow can start from
ReviewDetails == [extensionModId : {"", "42", "598"}, gameDomain : {"", "skyrim"}]

\* the queue: issue numbers follow the position in the queue
Queues ==
    UNION {[1..n -> ReviewDetails] : n \in 0..MaxRequests}

Requests(queue) ==
    [i \in DOMAIN queue |-> [issueNumber |-> i, reviewDetails |-> queue[i]]]

BatchEnvs == [NEXUS_APIKEY : {"", "key"}, DRYRUN : BOOLEAN]

BatchSiteOf(id) ==
    {[info |-> InfoFailed(id), files |-> FilesFailed],
     [info |-> InfoPublished(id, 4), files |-> FilesFailed],
     [info |-> InfoPublished(id, 4),
      files |-> FilesOk(<<File(205, MainCategory, DescIncompatible),
                          File(310, 4, DescNone),
                          File(100, MainCategory, DescNone)>>)],
     [info |-> InfoNoPicture(id), files |-> FilesOk(<<File(100, MainCategory, DescNone)>>)]}

BatchSiteOfSecond(id) ==
    {[info |-> InfoHidden(id), files |-> FilesFailed],
     [info |-> InfoPublished(id, 7), files |-> FilesOk(<<File(310, MainCategory, DescNone)>>)],
     [info |-> InfoPublished(id, 13), files |-> FilesOk(<<File(310, 4, DescNone)>>)]}

BatchManifests ==
    {[last_updated |-> 5000, extensions |-> first \o <<OldBundledEntry("game-alpha", "game-alpha")>>] :
        first \in {<<>>, <<Stub(42, 100)>>, <<OldTranslationEntry(598, 100)>>}}

InitBatch ==
    /\ canonical \in BatchManifests
    /\ archive = <<>>
    /\ manifest = EmptyManifest
    /\ pc = "idle"
    /\ exitCode = "none"
    /\ clock = ONE_MINUTE
    /\ \E s1 \in BatchSiteOf(42), s2 \in BatchSiteOfSecond(598) : site = (42 :> s1) @@ (598 :> s2)
    /\ recent = <<>>
    /\ gamesDir = <<>>
    /\ gamePage \in GamePages
    /\ env \in BatchEnvs
    /\ \E queue \in Queues : requests = Requests(queue)
    /\ results = <<>>
    /\ now = 0
    /\ combinedMods = <<>>
    /\ task = <<>>
    /\ gtask = <<>>
    /\ updatedExtensions = <<>>
    /\ addedExtensions = <<>>
    /\ removed = {}
    /\ before = EmptyManifest
    /\ runs = 0
    /\ InitFilterIdle
    /\ InitSelectIdle
    /\ InitValidateIdle
    /\ InitPublishIdle

NextBatch ==
    \/ BatchStart
    \/ ProcessRequest
    \/ MergeResults
    \/ BatchWriteArchive
    \/ BatchWriteMain

SpecBatch == InitBatch /\ [][NextBatch]_vars

(***************************************************************************)
(* Dry runs: the add script and the review batch script, each started with *)
(* DRYRUN set or unset in its environment                                  *)
(***************************************************************************)
\* the add script is the one started with EXT_MODID in its environment
AddScript == "EXT_MODID" \in DOMAIN env

InitDryRun == InitAdd \/ InitBatch

NextDryRun ==
    \/ AddScript /\ NextAdd
    \/ ~AddScript /\ NextBatch

SpecDryRun == InitDryRun /\ [][NextDryRun]_vars

(***************************************************************************)
(* The version filter taken alone                                          *)
(***************************************************************************)

InitFilter ==
    /\ fdesc \in SeqsUpTo(Tokens, MaxDesc)
    /\ fres = FilterUnset
    /\ InitSelectIdle
    /\ InitValidateIdle
    /\ InitFlowsIdle

ApplyFilter ==
    /\ ~fres.done
    /\ \E w \in Windows :
          fres' = [done |-> TRUE, low |-> w[1], high |-> w[2],
                   kept |-> RetainedIn(fdesc, w[1], w[2])]
    /\ UNCHANGED <<fdesc, selectVars, validateVars, flowVars>>

(***************************************************************************)
(* The choice of the tracked file taken alone                              *)
(***************************************************************************)
\* what a flow does with a file list: it stops without a tracked file, or tracks one
NoPick        == [st |-> "unset", file_id |-> 0]
Stopped       == [st |-> "none", file_id |-> 0]
Picked(f)     == [st |-> "file", file_id |-> f.file_id]

PickRefresh(files) ==
    IF Len(FilteredFiles(files)) = 0 THEN Stopped ELSE Picked(LatestFileRefresh(files))
PickAdd(files) ==
    IF Len(MainFiles(files)) = 0 THEN Stopped ELSE Picked(LatestFileAdd(files))
PickBatch(files) ==
    IF Len(MainFiles(files)) = 0 THEN Stopped ELSE Picked(LatestFileBatch(files))

Flows == {"refresh", "add", "batch"}

InitSelect ==
    /\ sfiles \in FileLists(MaxFiles)
    /\ spicked = [f \in Flows |-> NoPick]
    /\ InitFilterIdle
    /\ InitValidateIdle
    /\ InitFlowsIdle

SelectRefresh ==
    /\ spicked # <<>>
    /\ spicked["refresh"] = NoPick
    /\ spicked' = [spicked EXCEPT !["refresh"] = PickRefresh(sfiles)]
    /\ UNCHANGED <<sfiles, filterVars, validateVars, flowVars>>

SelectAdd ==
    /\ spicked # <<>>
    /\ spicked["add"] = NoPick
    /\ spicked' = [spicked EXCEPT !["add"] = PickAdd(sfiles)]
    /\ UNCHANGED <<sfiles, filterVars, validateVars, flowVars>>

SelectBatch ==
    /\ spicked # <<>>
    /\ spicked["batch"] = NoPick
    /\ spicked' = [spicked EXCEPT !["batch"] = PickBatch(sfiles)]
    /\ UNCHANGED <<sfiles, filterVars, validateVars, flowVars>>

NextFilter == ApplyFilter
SpecFilter == InitFilter /\ [][NextFilter]_vars

NextSelect == SelectRefresh \/ SelectAdd \/ SelectBatch
SpecSelect == InitSelect /\ [][NextSelect]_vars

(***************************************************************************)
(* The validator taken alone                                               *)
(***************************************************************************)
\* the entries handed to the validator: a full entry with one type, with or
\* without gameName, some values null and some keys missing
ValidateEntry(type, gameName, author, description, image, missing) ==
    LET e1 == Assign(OldEntry(42, 100, type), "author", author)
        e2 == Assign(e1, "description", description)
        e3 == Assign(e2, "image", image)
        e4 == IF gameName = UNDEF THEN e3 ELSE Assign(e3, "gameName", gameName)
    IN [k \in DOMAIN e4 \ missing |-> e4[k]]

ValidateEntries ==
    {ValidateEntry(type, gameName, author, description, image, missing) :
        type \in {"game", "theme", "translation", NULL, "tool"},
        gameName \in {UNDEF, "Skyrim", ""},
        author \in {"an author", NULL},
        description \in {[short |-> "short", long |-> "long"],
                         [short |-> NULL, long |-> "long"]},
        image \in {"pic.png", NULL},
        missing \in {{}, {"modId"}, {"type"}, {"description"}, {"image"},
                     {"tags", "timestamp"}}}

InitValidate ==
    /\ ventry \in ValidateEntries
    /\ vres = ValidateUnset
    /\ InitFilterIdle
    /\ InitSelectIdle
    /\ InitFlowsIdle

Validate ==
    /\ ~vres.done
    /\ vres' = [done |-> TRUE, valid |-> validateManifestEntry(ventry),
                errors |-> validateManifestEntryErrors(ventry)]
    /\ UNCHANGED <<ventry, filterVars, selectVars, flowVars>>

NextValidate == Validate
SpecValidate == InitValidate /\ [][NextValidate]_vars

(***************************************************************************)
(* The publish flow: ExtensionPublisher.publish                            *)
(***************************************************************************)
\* the request names a mod id whose manifest entry passes validation once normalized
Publishable(exts, request) ==
    /\ request.reviewDetails.extensionModId # ""
    /\ LET i == FindByModId(exts, ToNumber(request.reviewDetails.extensionModId))
       IN /\ i # 0
          /\ validateManifestEntry(normalizeManifestEntry(exts[i]))

\* the two lists the loop over the requests fills, index by index
requestsToUpdate(exts, reqs) == SelectSeq(reqs, LAMBDA r : Publishable(exts, r))

entriesToAdd(exts, reqs) ==
    LET rs == requestsToUpdate(exts, reqs)
    IN [i \in DOMAIN rs |->
           normalizeManifestEntry(
               exts[FindByModId(exts, ToNumber(rs[i].reviewDetails.extensionModId))])]

\* start() and publish() up to "PUBLISHING EXTENSIONS": the token is checked,
\* the manifest and the queue are read, the publishable requests collected and
\* the timestamp set
PublishStart ==
    /\ pc = "idle"
    /\ IF env.PERSONAL_ACCESS_TOKEN = ""
       THEN Exit1 /\ UNCHANGED manifest
       ELSE IF requests = <<>> \/ entriesToAdd(canonical.extensions, requests) = <<>>
       THEN manifest' = canonical /\ pc' = "done" /\ exitCode' = "0"
       ELSE /\ manifest' = [canonical EXCEPT !.last_updated = clock]
            /\ pc' = "publish:archive"
            /\ UNCHANGED exitCode
    /\ UNCHANGED <<clock, diskVars, refreshVars, pureVars, results,
                   site, recent, gamesDir, gamePage, env, requests, publishVars>>

\* writeManifestFile: with DRYRUN it returns at once; otherwise the archive
\* copy is written, or the write is rejected and the process ends
PublishWriteArchive ==
    /\ pc = "publish:archive"
    /\ IF env.DRYRUN
       THEN pc' = "publish:commit" /\ UNCHANGED <<archive, exitCode>>
       ELSE \/ /\ archive' = ArchiveWritten(manifest)
               /\ pc' = "publish:main"
               /\ UNCHANGED exitCode
            \/ /\ Exit1
               /\ UNCHANGED archive
    /\ UNCHANGED <<canonical, manifest, clock, worldVars, refreshVars, pureVars, results>>

\* writeManifestFile: the main file
PublishWriteMain ==
    /\ pc = "publish:main"
    /\ \/ /\ canonical' = JsonManifest(manifest)
          /\ pc' = "publish:commit"
          /\ UNCHANGED exitCode
       \/ /\ Exit1
          /\ UNCHANGED canonical
    /\ UNCHANGED <<archive, manifest, clock, worldVars, refreshVars, pureVars, results>>

PublishCommit_Swallowed ==
    /\ pc = "publish:commit"
    /\ IF env.DRYRUN
       THEN UNCHANGED git
       ELSE \/ git' = [commits |-> git.commits + 1, pushed |-> git.commits + 1]
            \/ git' = [git EXCEPT !.commits = @ + 1]
            \/ UNCHANGED git
    /\ pc' = "publish:issues"
    /\ UNCHANGED <<manifest, exitCode, clock, diskVars, refreshVars, pureVars, results,
                   site, recent, gamesDir, gamePage, env, requests,
                   commented, completed, publishResults>>

\* if (!DRYRUN) await this.commitAndPushChanges(entriesToAdd): the commit and
\* the push succeed, or one of them is rejected, the error is thrown again and
\* the process ends
PublishCommit ==
    /\ pc = "publish:commit"
    /\ IF env.DRYRUN
       THEN pc' = "publish:issues" /\ UNCHANGED <<git, exitCode>>
       ELSE \/ /\ git' = [commits |-> git.commits + 1, pushed |-> git.commits + 1]
               /\ pc' = "publish:issues"
               /\ UNCHANGED exitCode
            \/ /\ git' = [git EXCEPT !.commits = @ + 1]
               /\ Exit1
            \/ /\ Exit1
               /\ UNCHANGED git
    /\ UNCHANGED <<manifest, clock, diskVars, refreshVars, pureVars, results,
                   site, recent, gamesDir, gamePage, env, requests,
                   commented, completed, publishResults>>

\* one turn of the loop over requestsToUpdate: commentOnIssue and
\* updateIssueStatus each answer whether they succeeded; with DRYRUN neither
\* is called and both flags are set
PublishIssue ==
    /\ pc = "publish:issues"
    /\ Len(publishResults) < Len(requestsToUpdate(manifest.extensions, requests))
    /\ LET i       == Len(publishResults) + 1
           request == requestsToUpdate(manifest.extensions, requests)[i]
           entry   == entriesToAdd(manifest.extensions, requests)[i]
       IN IF env.DRYRUN
          THEN /\ publishResults' = Append(publishResults,
                       [request |-> request, entry |-> entry,
                        issueCommented |-> TRUE, statusUpdated |-> TRUE])
               /\ UNCHANGED <<commented, completed>>
          ELSE \E c \in BOOLEAN, s \in BOOLEAN :
                  /\ commented' = IF c THEN commented \cup {request.issueNumber}
                                  ELSE commented
                  /\ completed' = IF s THEN completed \cup {request.issueNumber}
                                  ELSE completed
                  /\ publishResults' = Append(publishResults,
                         [request |-> request, entry |-> entry,
                          issueCommented |-> c, statusUpdated |-> s])
    /\ UNCHANGED <<procVars, diskVars, refreshVars, pureVars, results,
                   site, recent, gamesDir, gamePage, env, requests, git>>

\* the loop is over: the summary is printed and the process ends
PublishDone ==
    /\ pc = "publish:issues"
    /\ Len(publishResults) = Len(requestsToUpdate(manifest.extensions, requests))
    /\ pc' = "done"
    /\ exitCode' = "0"
    /\ UNCHANGED <<manifest, clock, diskVars, worldVars, refreshVars, pureVars, results>>

\* ---- what a run of the publish flow can start from
PublishEnvs == [PERSONAL_ACCESS_TOKEN : {"", "token"}, DRYRUN : BOOLEAN]

PublishManifests ==
    {[last_updated |-> 5000, extensions |-> first \o second] :
        first \in {<<>>, <<Stub(42, 100)>>, <<OldEntry(42, 100, NULL)>>},
        second \in {<<>>, <<OldEntry(598, 100, "game")>>, <<OldGameEntry(598, 100)>>}}

InitPublish ==
    /\ canonical \in PublishManifests
    /\ archive = <<>>
    /\ manifest = EmptyManifest
    /\ pc = "idle"
    /\ exitCode = "none"
    /\ clock = ONE_MINUTE
    /\ site = <<>>
    /\ recent = <<>>
    /\ gamesDir = <<>>
    /\ gamePage = <<>>
    /\ env \in PublishEnvs
    /\ \E queue \in Queues : requests = Requests(queue)
    /\ results = <<>>
    /\ now = 0
    /\ combinedMods = <<>>
    /\ task = <<>>
    /\ gtask = <<>>
    /\ updatedExtensions = <<>>
    /\ addedExtensions = <<>>
    /\ removed = {}
    /\ before = EmptyManifest
    /\ runs = 0
    /\ InitFilterIdle
    /\ InitSelectIdle
    /\ InitValidateIdle
    /\ InitPublishIdle

NextPublish ==
    \/ PublishStart
    \/ PublishWriteArchive
    \/ PublishWriteMain
    \/ PublishCommit
    \/ PublishIssue
    \/ PublishDone

SpecPublish == InitPublish /\ [][NextPublish]_vars

(***************************************************************************)
(* Properties                                                              *)
(***************************************************************************)

\* ---- C8: the version filter ------------------------------------------------
\* Where the constraint of the phrase at position i of a description ends: the last
\* comparator reachable from the phrase through comparators and words only (a
\* comparator written with &lt; or &gt; counts: the text is read decoded).  0 when
\* position i holds no phrase followed by a range.
C8_RangeEnd(d, i) ==
    LET js == {j \in (i + 1)..Len(d) :
                  /\ d[j].k = "cmp"
                  /\ \A l \in (i + 1)..j : d[l].k \in {"cmp", "text"}}
    IN IF i \in DOMAIN d /\ d[i].k = "phrase" /\ js # {} THEN MaxOf(js) ELSE 0

\* the range that follows the phrase at position i is satisfied by low or by high
C8_Accepts(d, i, low, high) ==
    LET r == [l \in 1..(C8_RangeEnd(d, i) - i) |-> [d[i + l] EXCEPT !.enc = FALSE]]
    IN Satisfies(low, r) \/ Satisfies(high, r)

C8_IsExample(d) ==
    /\ Len(d) >= 3
    /\ SubSeq(d, 1, 3) = DescCompatible
    /\ C8_RangeEnd(d, 1) = 3

C2_SecondRunWritesSameExtensions ==
    (pc = "done" /\ runs >= 2) => canonical.extensions = before.extensions

\* ---- C3: the stub invariant ------------------------------------------------
\* C3: every entry the run sent through removeNexusMod has exactly the keys modId and
\* fileId.
C3_RemovedEntryIsStub ==
    \A i \in DOMAIN manifest.extensions :
        ("modId" \in DOMAIN manifest.extensions[i] /\ manifest.extensions[i].modId \in removed)
            => DOMAIN manifest.extensions[i] = {"modId", "fileId"}

\* C3 witness: the run is over and has reduced an entry that carried name, type,
\* gameName, gameId, tags and dependencies
C3_Witness ==
    /\ pc = "done"
    /\ 42 \in removed
    /\ LET i == FindByModId(before.extensions, 42)
       IN {"name", "type", "gameName", "gameId", "tags", "dependencies"}
              \subseteq DOMAIN before.extensions[i]
    /\ canonical.extensions[FindByModId(canonical.extensions, 42)] = Stub(42, 100)

\* ---- C4: the refresh flow neither adds nor deletes a marketplace entry -------
\* the modId of each entry in list order, 0 for an entry without one
C4_ModIds(exts) ==
    [i \in DOMAIN exts |-> IF "modId" \in DOMAIN exts[i] THEN exts[i].modId ELSE 0]

\* C4: while processNexusMods runs and when it has returned, the sequence of modId
\* values of the extensions list is the one the run read.
C4_ModIdSequenceKept ==
    (pc = "mods" \/ (pc = "games" /\ \A g \in DOMAIN gtask : gtask[g] = "read"))
        => C4_ModIds(manifest.extensions) = C4_ModIds(before.extensions)

\* C4 witness: processNexusMods has returned after stubbing a vanished item and
\* reporting a new one
C4_Witness ==
    /\ pc = "games"
    /\ removed # {}
    /\ addedExtensions # <<>>

\* ---- C5: a failed fetch is contained at its candidate -----------------------
C5_InfoFetchFailed(m) == site[m].info.st = "fail"
C5_FilesFetchFailed(m) ==
    /\ site[m].info.st = "ok"
    /\ site[m].info.picture_url # NULL
    /\ site[m].info.status = "published"
    /\ CATEGORIES(site[m].info.category_id) # UNDEF
    /\ site[m].files.st = "fail"

\* C5 as stated: when the fetch of a candidate's metadata or of its file list fails,
\* the run does not end with a failure, and a run that is over has settled every
\* candidate, saved the manifest and ended with exit code 0.
C5_FailedFetchContained ==
    \A m \in DOMAIN task :
        (C5_InfoFetchFailed(m) \/ C5_FilesFetchFailed(m)) =>
            /\ exitCode # "1"
            /\ pc \in {"done", "exited"} =>
                  /\ \A k \in DOMAIN task : task[k] = "done"
                  /\ canonical.last_updated = now
                  /\ exitCode = "0"

\* ---- C1: modId uniqueness ---------------------------------------------------
\* no two entries of the list share a defined modId
C1_UniqueModIds(exts) ==
    \A i, j \in DOMAIN exts :
        ("modId" \in DOMAIN exts[i] /\ "modId" \in DOMAIN exts[j] /\ exts[i].modId = exts[j].modId)
            => i = j

\* C1: in the manifest file, and in the list the running flow holds, no two entries
\* share a defined modId, whatever review requests are queued.
C1_NoTwoEntriesShareModId ==
    /\ C1_UniqueModIds(canonical.extensions)
    /\ C1_UniqueModIds(manifest.extensions)

\* ---- C7: normalizeManifestEntry on a tool entry -------------------------------
\* the results of the requests that processRequest built as a tool: a game-category
\* item requested without a game domain
C7_ToolResults ==
    {i \in DOMAIN results :
        /\ results[i].success
        /\ requests[i].reviewDetails.gameDomain = ""
        /\ CATEGORIES(site[ToNumber(requests[i].reviewDetails.extensionModId)].info.category_id)
               = "game"}

\* C7 as stated: the normalized entry of a tool has no type key at all.
C7_ToolEntryHasNoTypeKey ==
    \A i \in C7_ToolResults : "type" \notin DOMAIN results[i].entry

\* C7, amended: the normalized entry of a tool has the type key, holding null.
C7_ToolEntryKeepsNullType ==
    \A i \in C7_ToolResults :
        "type" \in DOMAIN results[i].entry /\ results[i].entry.type = NULL

\* C7 witness: a tool request went through normalizeManifestEntry and validation
C7_Witness ==
    /\ C7_ToolResults # {}
    /\ pc = "done"
    /\ \E i \in DOMAIN canonical.extensions :
          /\ "modId" \in DOMAIN canonical.extensions[i]
          /\ canonical.extensions[i].modId = 42
          /\ "type" \in DOMAIN canonical.extensions[i]
          /\ canonical.extensions[i].type = NULL

\* ---- C6: the hard failures of the single-item add flow -----------------------
C6_ModId == ToNumber(env.EXT_MODID)

\* one of the failures the claim lists applies to the run that was started
C6_HardFailure ==
    /\ runs >= 1
    /\ env.EXT_MODID # ""
    /\ LET modInfo == site[C6_ModId].info
           modFiles == site[C6_ModId].files
       IN \/ modInfo.st = "fail"
          \/ modInfo.status # "published"
          \/ CATEGORIES(modInfo.category_id) = UNDEF
          \/ modFiles.st = "ok" /\ MainFiles(modFiles.files) = <<>>
          \/ CATEGORIES(modInfo.category_id) = "translation" /\ env.EXT_LANGUAGE_CODE = ""
          \/ FindByModId(before.extensions, C6_ModId) # 0

\* C6: when the metadata fetch fails, the item is not published, its category is not
\* recognised, it has no main file, it is a translation without a language tag, or its
\* modId is already in the manifest, the run never gets to writing: the process does
\* not end with exit code 0, a stopped process has a non-zero exit code, the manifest
\* file is the one the run read and there is no archive copy of the run.
C6_HardFailureWritesNothing ==
    C6_HardFailure =>
        /\ pc \notin {"add:archive", "add:main", "done"}
        /\ exitCode # "0"
        /\ pc = "exited" => exitCode = "1"
        /\ canonical = before
        /\ getFormattedDate(clock) \notin DOMAIN archive

\* C6 witness: the process has stopped on a modId that is already present, the item
\* itself being fine, and the entry is as it was
C6_Witness ==
    /\ pc = "exited"
    /\ exitCode = "1"
    /\ env.NEXUS_APIKEY # ""
    /\ env.EXT_MODID = "42"
    /\ site[42].info = InfoPublished(42, 4)
    /\ site[42].files.st = "ok"
    /\ MainFiles(site[42].files.files) # <<>>
    /\ FindByModId(before.extensions, 42) # 0
    /\ canonical.extensions[FindByModId(canonical.extensions, 42)] = OldEntry(42, 100, NULL)

\* ---- C9: the version filter in the single-item add flow ----------------------
\* C9: the tracked file of an entry that the add flow has added is not a file whose
\* description carries a "requires vortex" constraint that neither bound of the
\* compatibility window satisfies.
C9_AddedFileIsCompatible ==
    (pc = "done" /\ exitCode = "0") =>
        LET m == ToNumber(env.EXT_MODID)
            i == FindByModId(canonical.extensions, m)
        IN (i # 0 /\ FindByModId(before.extensions, m) = 0) =>
              \A f \in Range(site[m].files.files) :
                  f.file_id = canonical.extensions[i].fileId => Retained(f.description)

\* ---- C10: the tie-break ----------------------------------------------------
C10_MainIds(files) == {f.file_id : f \in {g \in Range(files) : g.category_id = MainCategory}}
C10_RetainedIds(files) ==
    {f.file_id : f \in {g \in Range(files) :
                           g.category_id = MainCategory /\ Retained(g.description)}}

C10_Candidates(flow, files) ==
    IF flow = "refresh" THEN C10_RetainedIds(files) ELSE C10_MainIds(files)

\* C10: in every flow the file selected as latest is the one with the highest file id
\* among the flow's retained main files, whatever the order of the file list; a flow
\* selects no file exactly when it retains none.
C10_HighestFileIdSelected ==
    \A flow \in DOMAIN spicked :
        /\ spicked[flow].st = "file" =>
              /\ C10_Candidates(flow, sfiles) # {}
              /\ spicked[flow].file_id = MaxOf(C10_Candidates(flow, sfiles))
        /\ spicked[flow].st = "none" => C10_Candidates(flow, sfiles) = {}

\* C10 witness: main files 100 and 205 without constraints, listed oldest first; the
\* three flows have selected 205
C10_Witness ==
    /\ Len(sfiles) = 2
    /\ sfiles[1] = File(100, MainCategory, DescNone)
    /\ sfiles[2] = File(205, MainCategory, DescNone)
    /\ \A flow \in Flows : spicked[flow] = [st |-> "file", file_id |-> 205]

\* ---- C11: a game-category item in the single-item add flow --------------------
\* the entry a finished add run has appended for its mod id, 0 when it appended none
C11_Appended ==
    IF pc = "done" /\ exitCode = "0" /\ env.EXT_MODID # ""
          /\ FindByModId(before.extensions, ToNumber(env.EXT_MODID)) = 0
    THEN FindByModId(canonical.extensions, ToNumber(env.EXT_MODID))
    ELSE 0

\* the highest file id among the main files of the added item
C11_LatestMainId ==
    MaxOf({f.file_id : f \in Range(MainFiles(site[ToNumber(env.EXT_MODID)].files.files))})

\* C11: the entry appended for an item of the game category has, when a game domain was
\* given, type game, gameName and gameId of the game page and fileId and version of the
\* latest main file; when no game domain was given it has type null (a tool) and no
\* gameName.
C11_GameOrToolEntry ==
    (C11_Appended # 0
        /\ CATEGORIES(site[ToNumber(env.EXT_MODID)].info.category_id) = "game") =>
        LET e == canonical.extensions[C11_Appended]
        IN IF env.EXT_GAMEDOMAIN # ""
           THEN /\ Get(e, "type") = "game"
                /\ Get(e, "gameName") = gamePage.name
                /\ Get(e, "gameId") = gamePage.domain_name
                /\ e.fileId = C11_LatestMainId
                /\ e.version = FileVersion(C11_LatestMainId)
           ELSE /\ Get(e, "type") = NULL
                /\ "gameName" \notin DOMAIN e
                /\ e.fileId = C11_LatestMainId
                /\ e.version = FileVersion(C11_LatestMainId)

\* C11 witness: an item with main files 100 and 205 was added with the game domain
\* skyrim and tracks file 205
C11_Witness ==
    /\ C11_Appended # 0
    /\ env.EXT_GAMEDOMAIN = "skyrim"
    /\ Get(canonical.extensions[C11_Appended], "gameName") = "Skyrim"
    /\ Get(canonical.extensions[C11_Appended], "gameId") = "skyrim"
    /\ canonical.extensions[C11_Appended].fileId = 205


C13_SavedTogether ==
    (pc = "done" /\ exitCode = "0" /\ runs >= 1) =>
        /\ getFormattedDate(now) \in DOMAIN archive
        /\ archive[getFormattedDate(now)] = canonical
        /\ canonical = JsonManifest(manifest)

C13_FailedWriteReported ==
    /\ (pc = "archive" /\ archive' # ArchiveWritten(manifest)) => exitCode' = "1"
    /\ (pc = "main" /\ canonical' # JsonManifest(manifest)) => exitCode' = "1"

C13_SaveIsOneStep == [](C13_SavedTogether) /\ [][C13_FailedWriteReported]_vars

\* the archive copy was written, the write of the manifest file failed and the
\* process ended with a failure: the two files differ
C13_Witness ==
    /\ pc = "exited"
    /\ exitCode = "1"
    /\ getFormattedDate(now) \in DOMAIN archive
    /\ archive[getFormattedDate(now)] = JsonManifest(manifest)
    /\ archive[getFormattedDate(now)] # canonical


\* C14: in every refresh run, an entry that was full when the run started and
\* whose item is published, has a preview image, a recognized category and a
\* retained main file carries the freshly fetched downloads and endorsements
\* once its candidate has been processed, also when its tracked file is still
\* the latest one; a run that ends with success has written them to the file.
C14_Refreshable(m) ==
    /\ runs >= 1
    /\ m \in DOMAIN task
    /\ task[m] = "done"
    /\ FindByModId(before.extensions, m) # 0
    /\ "name" \in DOMAIN before.extensions[FindByModId(before.extensions, m)]
    /\ site[m].info.st = "ok"
    /\ site[m].info.status = "published"
    /\ site[m].info.picture_url # NULL
    /\ CATEGORIES(site[m].info.category_id) # UNDEF
    /\ site[m].files.st = "ok"
    /\ FilteredFiles(site[m].files.files) # <<>>

C14_HasFreshCounts(exts, m) ==
    /\ FindByModId(exts, m) # 0
    /\ Get(exts[FindByModId(exts, m)], "downloads") = site[m].info.mod_unique_downloads
    /\ Get(exts[FindByModId(exts, m)], "endorsements") = site[m].info.endorsement_count

C14_CountsRefreshed ==
    \A m \in RefreshMods :
        C14_Refreshable(m) =>
            /\ C14_HasFreshCounts(manifest.extensions, m)
            /\ (pc = "done" /\ exitCode = "0") => C14_HasFreshCounts(canonical.extensions, m)

\* a full entry whose tracked file is still the latest one was refreshed and written
C14_Witness ==
    /\ C14_Refreshable(42)
    /\ pc = "done"
    /\ exitCode = "0"
    /\ before.extensions[FindByModId(before.extensions, 42)].fileId
          = LatestFileRefresh(site[42].files.files).file_id
    /\ before.extensions[FindByModId(before.extensions, 42)].downloads
          # site[42].info.mod_unique_downloads
    /\ 42 \notin Range(updatedExtensions)
    /\ C14_HasFreshCounts(canonical.extensions, 42)


\* C15: whatever the order in which the reads of the game folders' descriptors
\* resolve, neither the manifest of the run nor the written file holds two
\* bundled entries (no modId) with the same id.
C15_BundledIdsUnique(exts) ==
    \A i, j \in DOMAIN exts :
        (/\ i # j
         /\ "modId" \notin DOMAIN exts[i]
         /\ "modId" \notin DOMAIN exts[j]
         /\ "id" \in DOMAIN exts[i]
         /\ "id" \in DOMAIN exts[j]) => exts[i].id # exts[j].id

C15_NoTwoBundledShareId ==
    /\ C15_BundledIdsUnique(manifest.extensions)
    /\ C15_BundledIdsUnique(canonical.extensions)

\* two folders declare the id "shared", no entry had it when the run started,
\* both folders are processed and the second one processed is game-alpha
C15_Witness ==
    /\ pc = "games"
    /\ runs = 1
    /\ DOMAIN gtask = {"game-alpha", "game-beta"}
    /\ \A g \in DOMAIN gtask : gtask[g] = "done"
    /\ InfoOf("game-alpha").id = "shared"
    /\ InfoOf("game-beta").id = "shared"
    /\ FindBundled(before.extensions, "shared") = 0
    /\ FindBundled(manifest.extensions, "shared") # 0
    /\ manifest.extensions[FindBundled(manifest.extensions, "shared")].githubRawPath = "game-beta"
    /\ manifest.extensions[FindBundled(manifest.extensions, "shared")].version = "1.0.0"


\* C16: removal in the refresh flow.
\* the entry of mod m is a stub with the file id the run found, or, when the
\* run found no entry, there is still none
C16_StubbedOrAbsent(m) ==
    LET i == FindByModId(before.extensions, m)
        j == FindByModId(manifest.extensions, m)
    IN IF i # 0
       THEN /\ j # 0
            /\ manifest.extensions[j] = Stub(m, before.extensions[i].fileId)
       ELSE j = 0

C16_Processed(m) ==
    /\ runs >= 1
    /\ m \in DOMAIN task
    /\ task[m] = "done"
    /\ site[m].info.st = "ok"

C16_NoRetainedFile(m) ==
    /\ site[m].files.st = "ok"
    /\ FilteredFiles(site[m].files.files) = <<>>

C17_NewCandidate(m) ==
    /\ runs >= 1
    /\ m \in DOMAIN task
    /\ task[m] = "done"
    /\ FindByModId(before.extensions, m) = 0
    /\ site[m].info.st = "ok"
    /\ site[m].info.status = "published"
    /\ site[m].info.picture_url # NULL
    /\ CATEGORIES(site[m].info.category_id) # UNDEF
    /\ site[m].files.st = "ok"
    /\ FilteredFiles(site[m].files.files) # <<>>

\* C17 (as the code has it): such a candidate is reported as added, for manual
\* adding, and no entry for it is put in the extensions list of the manifest,
\* nor in the file a successful run writes.
C17_NewIsReportedNotAppended ==
    \A m \in RefreshMods :
        C17_NewCandidate(m) =>
            /\ m \in Range(addedExtensions)
            /\ FindByModId(manifest.extensions, m) = 0
            /\ (pc = "done" /\ exitCode = "0") => FindByModId(canonical.extensions, m) = 0

\* C17 as stated: such a candidate is reported as added and a full entry for
\* it is in the extensions list
C17_NewIsAppended ==
    \A m \in RefreshMods :
        C17_NewCandidate(m) =>
            /\ m \in Range(addedExtensions)
            /\ FindByModId(manifest.extensions, m) # 0
            /\ "name" \in DOMAIN manifest.extensions[FindByModId(manifest.extensions, m)]

\* a successful run reported mod 42 as added and wrote a file without it
C17_Witness ==
    /\ C17_NewCandidate(42)
    /\ pc = "done"
    /\ exitCode = "0"
    /\ 42 \in Range(addedExtensions)
    /\ FindByModId(canonical.extensions, 42) = 0


\* C18: an existing full entry whose tracked file is no longer the latest one.
\* the entry the run found for mod m, and the latest retained main file
C18_Old(m) == before.extensions[FindByModId(before.extensions, m)]
C18_Latest(m) == LatestFileRefresh(site[m].files.files)

C18_FileChanged(m) ==
    /\ runs >= 1
    /\ m \in DOMAIN task
    /\ task[m] = "done"
    /\ FindByModId(before.extensions, m) # 0
    /\ "name" \in DOMAIN C18_Old(m)
    /\ site[m].info.st = "ok"
    /\ site[m].info.status = "published"
    /\ site[m].info.picture_url # NULL
    /\ CATEGORIES(site[m].info.category_id) # UNDEF
    /\ site[m].files.st = "ok"
    /\ FilteredFiles(site[m].files.files) # <<>>
    /\ C18_Old(m).fileId # C18_Latest(m).file_id

\* C18: such an entry is reported as updated; fileId, version, timestamp, name,
\* author, uploader and description come from the fetched metadata and the
\* latest file; gameName, language, gameId and type are what they were when
\* the run started (absent stays absent).
C18_UpdatedKeepsClassification ==
    \A m \in RefreshMods :
        C18_FileChanged(m) =>
            LET e == manifest.extensions[FindByModId(manifest.extensions, m)]
            IN /\ m \in Range(updatedExtensions)
               /\ e.fileId = C18_Latest(m).file_id
               /\ e.version = C18_Latest(m).version
               /\ e.timestamp = C18_Latest(m).uploaded_timestamp
               /\ e.name = site[m].info.name
               /\ e.author = site[m].info.author
               /\ e.uploader = site[m].info.uploaded_by
               /\ e.description = [short |-> site[m].info.summary,
                                   long |-> site[m].info.description]
               /\ \A k \in {"gameName", "language", "gameId", "type"} :
                      Get(e, k) = Get(C18_Old(m), k)

\* a translation entry tracked file 100, the item now has file 205 and sits in
\* the theme category: the entry is updated and still a translation for "de"
C18_Witness ==
    /\ C18_FileChanged(598)
    /\ 598 \in Range(updatedExtensions)
    /\ C18_Old(598).type = "translation"
    /\ CATEGORIES(site[598].info.category_id) = "theme"
    /\ manifest.extensions[FindByModId(manifest.extensions, 598)].fileId = 205
    /\ manifest.extensions[FindByModId(manifest.extensions, 598)].type = "translation"
    /\ manifest.extensions[FindByModId(manifest.extensions, 598)].language = "de"


\* C19: reappearance of an item whose entry is a stub.
\* the run found a stub for mod m, and its item is published with a preview
\* image, a recognized category and a retained main file
C19_Reappeared(m) ==
    /\ runs >= 1
    /\ m \in DOMAIN task
    /\ task[m] = "done"
    /\ FindByModId(before.extensions, m) # 0
    /\ DOMAIN before.extensions[FindByModId(before.extensions, m)] = {"modId", "fileId"}
    /\ site[m].info.st = "ok"
    /\ site[m].info.status = "published"
    /\ site[m].info.picture_url # NULL
    /\ CATEGORIES(site[m].info.category_id) # UNDEF
    /\ site[m].files.st = "ok"
    /\ FilteredFiles(site[m].files.files) # <<>>

\* the entry of mod m is in full descriptive form
C19_Full(m) ==
    /\ FindByModId(manifest.extensions, m) # 0
    /\ {"name", "description", "version", "author", "image"}
           \subseteq DOMAIN manifest.extensions[FindByModId(manifest.extensions, m)]

\* C19: the run restores the entry of a reappeared item to full form and does
\* not report it as added, whether or not the latest file id is the one kept in
\* the stub.
C19_StubRestored ==
    \A m \in RefreshMods :
        C19_Reappeared(m) => (C19_Full(m) /\ m \notin Range(addedExtensions))


\* C20: the dependencies of a rewritten entry.
C20_Old(m) == before.extensions[FindByModId(before.extensions, m)]

\* the run found an entry for mod m and has rewritten its fields: the item is
\* published with a preview image, a recognized category and a retained main
\* file, and the entry was full or tracked another file
C20_Rewritten(m) ==
    /\ runs >= 1
    /\ m \in DOMAIN task
    /\ task[m] = "done"
    /\ FindByModId(before.extensions, m) # 0
    /\ site[m].info.st = "ok"
    /\ site[m].info.status = "published"
    /\ site[m].info.picture_url # NULL
    /\ CATEGORIES(site[m].info.category_id) # UNDEF
    /\ site[m].files.st = "ok"
    /\ FilteredFiles(site[m].files.files) # <<>>
    /\ \/ "name" \in DOMAIN C20_Old(m)
       \/ C20_Old(m).fileId # LatestFileRefresh(site[m].files.files).file_id

\* C20: after the rewrite dependencies.vortex is the range the latest file's
\* description declares, and there is none when it declares none; every other
\* dependency key has the value it had.
C20_DependenciesFollowLatestFile ==
    \A m \in RefreshMods :
        C20_Rewritten(m) =>
            LET e == manifest.extensions[FindByModId(manifest.extensions, m)]
                range == VersionMatch(HtmlDecode(
                             LatestFileRefresh(site[m].files.files).description))
                old == IF "dependencies" \in DOMAIN C20_Old(m)
                       THEN C20_Old(m).dependencies ELSE UndefinedDeps
            IN /\ "dependencies" \in DOMAIN e
               /\ IF range # NoMatch
                  THEN "vortex" \in DOMAIN e.dependencies /\ e.dependencies.vortex = range
                  ELSE "vortex" \notin DOMAIN e.dependencies
               /\ \A k \in DOMAIN old \ {"vortex", "undefined"} :
                      k \in DOMAIN e.dependencies /\ e.dependencies[k] = old[k]


\* C21: skipped candidates.
\* the entry of mod m in a list, or UNDEF when it has none
C21_EntryOf(exts, m) ==
    IF FindByModId(exts, m) = 0 THEN <<UNDEF>> ELSE <<exts[FindByModId(exts, m)]>>

C21_Untouched(m) ==
    /\ C21_EntryOf(manifest.extensions, m) = C21_EntryOf(before.extensions, m)
    /\ C21_EntryOf(canonical.extensions, m) = C21_EntryOf(before.extensions, m)

\* C21 (as the code has it): when the metadata fetch of a candidate fails, or
\* its metadata has no preview image, or its item is published and its
\* category is not in the table, the entry for that modId is, during and after
\* the run and in the file, what the run read.
C21_SkipLeavesEntry ==
    \A m \in RefreshMods :
        (/\ runs >= 1
         /\ \/ site[m].info.st = "fail"
            \/ site[m].info.picture_url = NULL
            \/ /\ site[m].info.status = "published"
               /\ CATEGORIES(site[m].info.category_id) = UNDEF)
            => C21_Untouched(m)

\* C21 as stated: the same for every item whose category is not in the table,
\* whatever its status
C21_SkipLeavesEntryAnyStatus ==
    \A m \in RefreshMods :
        (/\ runs >= 1
         /\ \/ site[m].info.st = "fail"
            \/ site[m].info.picture_url = NULL
            \/ CATEGORIES(site[m].info.category_id) = UNDEF)
            => C21_Untouched(m)

\* a published item of an unknown category with a main file: the run is over
\* and the full entry is in the file as it was
C21_Witness ==
    /\ pc = "done"
    /\ exitCode = "0"
    /\ 42 \in DOMAIN task
    /\ site[42].info.st = "ok"
    /\ site[42].info.status = "published"
    /\ CATEGORIES(site[42].info.category_id) = UNDEF
    /\ site[42].files.st = "ok"
    /\ FindByModId(before.extensions, 42) # 0
    /\ "name" \in DOMAIN before.extensions[FindByModId(before.extensions, 42)]
    /\ C21_Untouched(42)


\* C22: the order of the save in a refresh run.
\* all the work of the run is over: the query has answered, every candidate
\* and every game folder is processed, and last_updated is set
C22_AllSettled ==
    /\ recent.st = "ok"
    /\ \A m \in DOMAIN task : task[m] = "done"
    /\ DOMAIN task = Range(combinedMods)
    /\ \A g \in DOMAIN gtask : gtask[g] = "done"
    /\ DOMAIN gtask = Range(gameList)
    /\ manifest.last_updated = now

\* a step that writes the archive copy or the manifest file is taken when all
\* is settled, and the write of the manifest file ends the run; last_updated
\* is set in the step between the last game folder and the save
C22_WriteAfterAll ==
    /\ archive' # archive => (pc = "archive" /\ C22_AllSettled)
    /\ canonical' # canonical => (pc = "main" /\ pc' = "done" /\ C22_AllSettled)
    /\ (pc \notin {"idle", "done"} /\ manifest'.last_updated # manifest.last_updated)
          => /\ pc = "games"
             /\ pc' = "archive"
             /\ \A m \in DOMAIN task : task[m] = "done"
             /\ \A g \in DOMAIN gtask : gtask[g] = "done"

\* no more archive copies than runs; a failed query ends the process with a
\* failure and both files as they were
C22_OnePerRun ==
    /\ Cardinality(DOMAIN archive) <= runs
    /\ (runs >= 1 /\ recent.st = "fail")
          => /\ pc \in {"updates", "exited"}
             /\ pc = "exited" => exitCode = "1"
             /\ canonical = before
             /\ archive = <<>>

\* C22: the manifest is written at most once in a run and only after the
\* query has succeeded, every candidate has settled and the bundled merge is
\* over; last_updated is set after all processing and before the write; a
\* failed query ends the process with a failure and without a write.
C22_SaveOrdering == [](C22_OnePerRun) /\ [][C22_WriteAfterAll]_vars

\* a run with a candidate and two game folders has written the file
C22_Witness ==
    /\ pc = "done"
    /\ exitCode = "0"
    /\ runs = 1
    /\ C22_AllSettled
    /\ combinedMods # <<>>
    /\ Cardinality(DOMAIN gtask) = 2
    /\ canonical.last_updated = now
    /\ Cardinality(DOMAIN archive) = 1


\* C23: the merge of the candidates is serialized.
\* what one candidate makes of the list when its callback runs alone, from
\* the lookup of its entry to the last assignment
C23_Candidate(exts, m) ==
    LET modInfo == site[m].info
        i == FindByModId(exts, m)
        stubbed == IF i # 0 THEN [exts EXCEPT ![i] = removeNexusMod(exts[i])] ELSE exts
    IN IF modInfo.st = "fail" \/ modInfo.picture_url = NULL THEN exts
       ELSE IF modInfo.status # "published" THEN stubbed
       ELSE IF CATEGORIES(modInfo.category_id) = UNDEF THEN exts
       ELSE IF site[m].files.st = "fail" THEN exts
       ELSE IF FilteredFiles(site[m].files.files) = <<>> THEN stubbed
       ELSE IF i # 0
            THEN [exts EXCEPT ![i] = RefreshExisting(exts[i], modInfo,
                                         LatestFileRefresh(site[m].files.files))]
            ELSE NewExtension(exts, modInfo, LatestFileRefresh(site[m].files.files))

\* the candidates taken one after the other, in the order of the list
RECURSIVE C23_InOrder(_, _)
C23_InOrder(exts, mods) ==
    IF mods = <<>> THEN exts
    ELSE C23_InOrder(C23_Candidate(exts, Head(mods)), Tail(mods))

\* C23: when every candidate of the run is processed, in whatever order the
\* requests resolved, the extensions list is the one that results from taking
\* the candidates one after the other.
C23_MergeIsOrderFree ==
    (/\ pc = "mods"
     /\ DOMAIN task = Range(combinedMods)
     /\ \A m \in DOMAIN task : task[m] = "done")
        => manifest.extensions = C23_InOrder(before.extensions, combinedMods)

\* two candidates with entries, both updated, the second of the list first
C23_Witness ==
    /\ pc = "mods"
    /\ combinedMods = <<598, 42>>
    /\ \A m \in DOMAIN task : task[m] = "done"
    /\ updatedExtensions = <<42, 598>>
    /\ manifest.extensions # before.extensions
    /\ manifest.extensions = C23_InOrder(before.extensions, combinedMods)


\* C24: the candidates of a refresh run.
\* the mod ids of the answered entries that are newer than the timestamp the
\* run read, and the mod ids of the entries the run read
C24_Recent ==
    {recent.list[i].mod_id : i \in
        {j \in DOMAIN recent.list :
            \/ recent.list[j].latest_file_update * 1000 > before.last_updated
            \/ recent.list[j].latest_mod_activity * 1000 > before.last_updated}}

C24_Known ==
    {before.extensions[i].modId : i \in
        {j \in DOMAIN before.extensions : "modId" \in DOMAIN before.extensions[j]}}

C24_Selected ==
    (runs >= 1 /\ pc \in {"mods", "games", "archive", "main", "done"})
        => /\ Range(combinedMods) = C24_Recent \cup C24_Known
           /\ Cardinality(Range(combinedMods)) = Len(combinedMods)
           /\ DOMAIN task = Range(combinedMods)

\* a candidate only moves forward: from its metadata to its files or to the
\* end, from its files to the end
C24_Forward ==
    \A m \in DOMAIN task :
        (m \in DOMAIN task' /\ task'[m] # task[m])
            => \/ task[m] = "info" /\ task'[m] \in {"files", "done"}
               \/ task[m] = "files" /\ task'[m] = "done"

C25_EntryOf(g) ==
    manifest.extensions[FindBundled(manifest.extensions, BundledId(InfoOf(g), g))]

C25_Merged ==
    /\ runs >= 1
    /\ pc \in {"games", "archive", "main", "done"}
    /\ DOMAIN gtask = Range(gameList)
    /\ \A g \in DOMAIN gtask : gtask[g] = "done"

\* C25: after the bundled merge the entry of every processed game folder,
\* created in this run or found in the manifest, has hide = true, type = game,
\* the descriptor's name without its first six characters as gameName, the
\* descriptor's author, description and version, and the image derived from
\* the folder name.
C25_BundledEntrySynced ==
    C25_Merged =>
        \A g \in Range(gameList) :
            /\ FindBundled(manifest.extensions, BundledId(InfoOf(g), g)) # 0
            /\ Get(C25_EntryOf(g), "hide") = TRUE
            /\ Get(C25_EntryOf(g), "type") = "game"
            /\ Get(C25_EntryOf(g), "gameName") = Slice6(InfoOf(g).name)
            /\ Get(C25_EntryOf(g), "author") = InfoOf(g).author
            /\ Get(C25_EntryOf(g), "description") = [short |-> InfoOf(g).description,
                                                     long |-> InfoOf(g).description]
            /\ Get(C25_EntryOf(g), "version") = InfoOf(g).version
            /\ Get(C25_EntryOf(g), "image") = GameArt(g)


\* C26: the validator.
\* the rules an entry breaks, the type rule being: game, theme, translation
\* or null, and nothing else
C26_Broken(e) ==
    {r \in {"modId", "fileId", "downloads", "endorsements", "timestamp"} :
        r \notin DOMAIN e}
    \cup {r \in {"author", "uploader", "name", "version"} :
            Get(e, r) \in {UNDEF, NULL}}
    \cup (IF "description" \notin DOMAIN e THEN {"description"}
          ELSE {r \in {"short", "long"} : e.description[r] \in {UNDEF, NULL}})
    \cup (IF Get(e, "image") = NULL THEN {"image"} ELSE {})
    \cup (IF "tags" \notin DOMAIN e THEN {"tags"} ELSE {})
    \cup (IF Get(e, "type") \notin {"game", "theme", "translation", NULL}
          THEN {"type"} ELSE {})
    \cup (IF Get(e, "gameName") = NULL THEN {"gameName"} ELSE {})
    \cup (IF Get(e, "type") = "game" /\ Get(e, "gameName") \in {UNDEF, NULL, ""}
          THEN {"game without gameName"} ELSE {})

\* C26: the validator answers valid exactly for the entries that break no
\* rule, the type being game, theme, translation or null and nothing else;
\* it reports one error for each broken rule.
C26_ValidIffNoRuleBroken ==
    vres.done =>
        /\ vres.valid = (C26_Broken(ventry) = {})
        /\ Len(vres.errors) = Cardinality(C26_Broken(ventry))


\* C27: the tags of a full entry the refresh rewrites.
C27_Old(m) == before.extensions[FindByModId(before.extensions, m)]

\* the run has settled mod m, which had a full entry with tags before the run
\* and still has a retained main file on a published, categorised item with a
\* preview image: the entry stays in the list and its fields are refreshed
C27_FullRefreshed(m) ==
    /\ runs >= 1
    /\ m \in DOMAIN task
    /\ task[m] = "done"
    /\ FindByModId(before.extensions, m) # 0
    /\ "name" \in DOMAIN C27_Old(m)
    /\ "tags" \in DOMAIN C27_Old(m)
    /\ site[m].info.st = "ok"
    /\ site[m].info.status = "published"
    /\ site[m].info.picture_url # NULL
    /\ CATEGORIES(site[m].info.category_id) # UNDEF
    /\ site[m].files.st = "ok"
    /\ FilteredFiles(site[m].files.files) # <<>>

\* C27: a full entry the refresh has processed carries the tags list it had
\* before the run, whether its tracked file changed or not.
C27_TagsKept ==
    \A m \in RefreshMods :
        C27_FullRefreshed(m) =>
            LET e == manifest.extensions[FindByModId(manifest.extensions, m)]
            IN "tags" \in DOMAIN e /\ e.tags = C27_Old(m).tags


\* C28: the list the bundled merge leaves, against the order the descriptor
\* reads complete in.
\* entry e was created by this run's bundled merge: a bundled entry whose id
\* no bundled entry had before the run
C28_Created(e) ==
    /\ "modId" \notin DOMAIN e
    /\ "id" \in DOMAIN e
    /\ FindBundled(before.extensions, e.id) = 0

\* the callbacks of folders[from..] run one after the other, in listing order
RECURSIVE C28_InOrder(_, _, _)
C28_InOrder(exts, folders, from) ==
    IF from > Len(folders) THEN exts
    ELSE LET g    == folders[from]
             info == InfoOf(g)
             i    == FindBundled(exts, BundledId(info, g))
             next == IF i = 0
                     THEN Append(exts, SyncBundled(NewBundled(info, g), info, g))
                     ELSE [exts EXCEPT ![i] = SyncBundled(exts[i], info, g)]
         IN C28_InOrder(next, folders, from + 1)

C28_Merged ==
    /\ runs >= 1
    /\ pc \in {"games", "archive", "main", "done"}
    /\ DOMAIN gtask = Range(gameList)
    /\ \A g \in DOMAIN gtask : gtask[g] = "done"

\* C28: once every descriptor callback has run, the extensions list is the one
\* the callbacks produce when they run in listing order, the newly created
\* entries in that order included, whatever order the reads completed in.
C28_MergeIsReadOrderFree ==
    C28_Merged =>
        manifest.extensions =
            C28_InOrder(SelectSeq(manifest.extensions, LAMBDA e : ~C28_Created(e)),
                        gameList, 1)


\* C29: the fields of an entry the batch flow accepts.
\* the entry processRequest built for request i, before normalization
C29_Built(i) ==
    LET modId == ToNumber(requests[i].reviewDetails.extensionModId)
    IN BatchEntry(requests[i], site[modId].info,
                  LatestFileBatch(site[modId].files.files),
                  CATEGORIES(site[modId].info.category_id))

\* C29: the entry of every successful result has every field it was built
\* with, with the value it was built with: a translation entry its language, a
\* game entry its gameName and gameId.
C29_NormalizedKeepsFields ==
    \A i \in DOMAIN results :
        results[i].success =>
            \A k \in DOMAIN C29_Built(i) :
                ~IsUndefined(k, C29_Built(i)[k]) =>
                    /\ k \in DOMAIN results[i].entry
                    /\ results[i].entry[k] = C29_Built(i)[k]


\* C30: what the publish flow does to the queued requests.
\* the issues this run commented on or moved to Completed
C30_Acted == commented \cup completed

\* the manifest of this run is on disk, archive copy and main file
C30_Written ==
    /\ getFormattedDate(manifest.last_updated) \in DOMAIN archive
    /\ archive[getFormattedDate(manifest.last_updated)] = JsonManifest(manifest)
    /\ canonical = JsonManifest(manifest)
    /\ manifest.last_updated = clock

\* C30: an issue is commented on or moved to Completed only when the run is
\* not a dry run, the request's mod id has a manifest entry that passes
\* validation, the manifest has been written and the commit has been pushed;
\* a run that ended with a failure, and a dry run, acted on no issue.
C30_IssuesOnlyAfterPush ==
    /\ \A n \in C30_Acted :
          /\ ~env.DRYRUN
          /\ n \in DOMAIN requests
          /\ Publishable(manifest.extensions, requests[n])
          /\ C30_Written
          /\ git.commits = 1
          /\ git.pushed = 1
    /\ (exitCode = "1" \/ env.DRYRUN) => C30_Acted = {}

C30_Witness ==
    /\ pc = "done"
    /\ Len(requests) = 2
    /\ ~Publishable(manifest.extensions, requests[1])
    /\ commented = {2}
    /\ completed = {2}
    /\ git.pushed = 1

====
